---- MODULE Spec2Model ----
(***************************************************************************)
(* A model of the lap-joint toolpath planner (tools/python).               *)
(*                                                                         *)
(* Part 1, the topology resolver: Structure.findPairs and                  *)
(* Structure.makePockets (structure.py), with the parts of Joint.__init__  *)
(* (joint.py) and Pocket.__init__ (pocket.py) that build the               *)
(* Member/Joint/Pocket cross references.                                   *)
(*                                                                         *)
(* Part 2, the toolpath generator: Pocket.facePath and Pocket.blockPath    *)
(* (pocket.py) with the Mill and Rapid operations they build               *)
(* (toolpath.py).  Lengths are integers: a unit is whatever divides the    *)
(* ranges, depths and steps of the run.                                    *)
(*                                                                         *)
(* Part 3, the code emitter: Post.makeGcode (post.py), Pocket.makeGcode    *)
(* (pocket.py), Toolpath.makeGcode and the makeGcode of Mill, Rapid and    *)
(* Arc (toolpath.py) on the accumulator common.Gcode (common.py).  The     *)
(* text is a sequence of words; coordinates are whole multiples of the     *)
(* configured precision, on which round() changes nothing.                 *)
(*                                                                         *)
(* Part 4, the pocket toolpaths: Pocket.makeToolpath and                   *)
(* Pocket_mfBar.makeToolpath with makeHoleToolpath (pocket.py), and the    *)
(* main script (lap_joint.py) from makePockets to Structure.writeGcode     *)
(* when the creation of a pocket raises.                                   *)
(***************************************************************************)
EXTENDS Integers, Sequences, FiniteSets, TLC

\* Largest member id of the structures explored (ids are 0..MaxId).
MaxId == 3

\* The proximity threshold of findPairs.
Threshold == 2

\* Closest-approach distances tried for a pair of axes: just below the
\* threshold and exactly at it.
Dists == {1, 2}

\* Largest face coordinate of the ranges handed to facePath alone.
MaxCoord == 3

\* Largest step-over (stepOver * millDiameter * skewFactor) and step-down
\* (stepDown * millDiameter).
MaxStep == 3

\* Depths of blockPath are 0..MaxZ.
MaxZ == 5

\* Largest number of pockets of the member whose program is emitted.
MaxPockets == 2

VARIABLES
    axes,         \* Structure.axes: the set of member ids (kept sorted by id)
    dist,         \* closest-approach distance of each unordered pair of axes
    pc,           \* position in makePockets
    a, b,         \* findPairs: the two loop indices into keys
    tested,       \* findPairs: the key pairs tested so far (history)
    pairs,        \* findPairs: the accepted pairs, in discovery order
    connections,  \* Structure.connections
    paths,        \* makePockets: the third power of the connection matrix
    post,         \* makePockets: index of the gender loop over posts
    pathIx,       \* makePockets: position in paths[post][post] (1-based)
    edgeIx,       \* makePockets: i, the joint of the figure being looked at
    dup,          \* makePockets: dup
    genders,      \* makePockets: genders, (p0,p1) -> bit
    log,          \* history: one entry per joint looked at by the gender loop
    conflicts,    \* the "Connected rings" reports, in order
    pairIx,       \* makePockets: position in the loop over pairs (1-based)
    fringe,       \* makePockets: fringe
    joints,       \* Structure.joints
    postPockets,  \* Post.pockets of each member
    isConnected,  \* Post.isConnected of each member
    fpc,          \* position in facePath
    fD,           \* facePath: d
    fStart,       \* facePath: start
    fDir,         \* facePath: dir
    uRange,       \* facePath: uRange, as getFaceBounds returns it
    vRange,       \* facePath: vRange, as getFaceBounds returns it
    step,         \* stepOver * UVmillD
    fPath,        \* facePath: path
    zigDirection, \* facePath: the alternating direction of the long moves
                  \*   (uDirection when dir = 1, vDirection when dir = 0)
    zagDirection, \* facePath: the direction of the steps, 1 or -1
                  \*   (vDirection when dir = 1, uDirection when dir = 0)
    faceResult,   \* facePath: the value returned, [end corner, path]
                  \*   (no path yet: the empty path)
    bpc,          \* position in blockPath
    startZ,       \* blockPath: startZ
    endZ,         \* blockPath: endZ
    stepDownD,    \* stepDown * millDiameter
    finish,       \* blockPath: finish
    currentZ,     \* blockPath: currentZ
    result,       \* blockPath: result
    operations,   \* blockPath: toolpath.operations
    layers,       \* history: the depths facePath was called with
    uEnds,        \* blockPath: uEnds, each end False (empty) or a coordinate
    vEnds,        \* blockPath: vEnds, False (empty) or the two ends
    vDomain,      \* Pocket.face.Domain(1)
    approach,     \* settings.gcode['approach'], in halves
    memberPockets,\* Post.pockets of the member emitted: joint id and toolpath
    gpc,          \* position in Post.makeGcode
    pocketIx,     \* Post.makeGcode: position in the loop over pockets
    opIx,         \* Toolpath.makeGcode: position in the loop over operations
    text,         \* Gcode.text, as a sequence of words
    feedRate,     \* Gcode.feedRate
    marks,        \* history: what was emitted, with its place in the text
    pass,         \* history: 1 for the first emission, 2 for the repeated one
    firstText,    \* history: the text of the first emission
    pocketType,   \* settings.pocket['pocketType']: 0 Pocket, 1 Pocket_mfBar
    pocketIndex,  \* Pocket.index: 0 female, 1 male
    rotation,     \* Pocket.rotation
    markDatum,    \* settings.pocket['markDatum']
    profileTop,   \* Pocket.profileBounds.Max.Z
    mpc,          \* position in makeToolpath
    callNo,       \* makeToolpath: which call of blockPath is next
    toolpath,     \* makeToolpath: toolpath.operations
    blocks,       \* history: the calls of blockPath and what they returned
    failing,      \* the joints (positions in pairs) whose p.create() raises
    written,      \* writeGcode: the members whose file was written, in order
    cpc,          \* position in Joint.commonFace
    edgeU,        \* commonFace: corners[1] - corners[0]
    edgeV,        \* commonFace: corners[3] - corners[0]
    skew,         \* Joint.skew
    skewFactor    \* Joint.skewFactor, squared, or the error raised

topoVars == <<axes, dist, pc, a, b, tested, pairs, connections, paths, post,
              pathIx, edgeIx, dup, genders, log, conflicts, pairIx,
              fringe, joints, postPockets, isConnected>>

cutVars == <<fpc, fD, fStart, fDir, uRange, vRange, step, fPath, zigDirection,
             zagDirection, faceResult, bpc, startZ, endZ, stepDownD, finish,
             currentZ, result, operations, layers, uEnds, vEnds, vDomain>>

\* The arguments of getFaceBounds that a block does not change.
boundsVars == <<uEnds, vEnds, vDomain>>

emitVars == <<approach, memberPockets, gpc, pocketIx, opIx, text, feedRate,
              marks, pass, firstText>>

pocketVars == <<pocketType, pocketIndex, rotation, markDatum, profileTop, mpc,
                callNo, toolpath, blocks>>

runVars == <<failing, written>>

jointVars == <<cpc, edgeU, edgeV, skew, skewFactor>>

\* What the actions of one part leave alone.
nonTopoVars == <<cutVars, emitVars, pocketVars, runVars, jointVars>>
nonCutVars == <<topoVars, emitVars, pocketVars, runVars, jointVars>>
nonEmitVars == <<topoVars, cutVars, pocketVars, runVars, jointVars>>
nonJointVars == <<topoVars, cutVars, emitVars, pocketVars, runVars>>

vars == <<topoVars, cutVars, emitVars, pocketVars, runVars, jointVars>>

----------------------------------------------------------------------------
(* Helpers *)

Ids == 0..MaxId

Max(S) == CHOOSE x \in S : \A y \in S : y <= x

\* Python's range(n) as a sequence.
Range(n) == [i \in 1..n |-> i - 1]

\* "for x in ss: out += x": the concatenation of a sequence of sequences.
RECURSIVE Flatten(_)
Flatten(ss) == IF ss = <<>> THEN <<>> ELSE Head(ss) \o Flatten(Tail(ss))

\* Structure.dim and Structure.maxId after selectAxes.
dim == Cardinality(axes)
maxId == Max(axes \cup {0})

\* self.axes.keys(): the ids in ascending order (selectAxes sorts by id).
RECURSIVE SortedSeq(_)
SortedSeq(S) ==
    IF S = {} THEN <<>>
    ELSE LET m == CHOOSE x \in S : \A y \in S : x <= y
         IN  <<m>> \o SortedSeq(S \ {m})

keys == SortedSeq(axes)

\* keys[i] with Python's 0-based index.
Key(i) == keys[i + 1]

UnorderedPairs(S) == {p \in S \X S : p[1] < p[2]}

\* rs.Distance(*common.findClosestPoints(axis0, axis1)): symmetric in the axes.
Distance(x, y) == IF x < y THEN dist[<<x, y>>] ELSE dist[<<y, x>>]

----------------------------------------------------------------------------
(* findPairs *)

AcceptsLoose(d) == d <= Threshold

\* "only accept pairs within specified distance"
Accepts(d) == d < Threshold

\* The loop "for a in range(dim): for b in range(a+1, dim)" is over.
PairsLoopDone == a >= dim

\* The indices of the iteration after (x, y); (dim, dim) when there is none.
NextAB(x, y) ==
    IF y + 1 < dim THEN <<x, y + 1>>
    ELSE IF x + 2 < dim THEN <<x + 1, x + 2>>
    ELSE <<dim, dim>>

\* The indices of the first iteration.
FirstAB == IF dim >= 2 THEN <<0, 1>> ELSE <<dim, dim>>

\* The connection matrix as initialised by makePockets: every entry [[]].
EmptyConnections == [i \in 0..maxId |-> [j \in 0..maxId |-> << <<>> >>]]

\* connections[x][y] = [[y]]; connections[y][x] = [[x]]
Connect(c, x, y) ==
    [c EXCEPT ![x] = [c[x] EXCEPT ![y] = << <<y>> >>],
              ![y] = [c[y] EXCEPT ![x] = << <<x>> >>]]

----------------------------------------------------------------------------
(* makePockets: path composition *)

\* First modified multiplication: result1[row][column].
Result1Entry(current, conn, row, column) ==
    Flatten([it \in 1..(maxId + 1) |->
        LET item == Range(maxId + 1)[it] IN
        Flatten([pi \in 1..Len(current[row][item]) |->
            LET path == current[row][item][pi] IN
            Flatten([ei \in 1..Len(conn[item][column]) |->
                LET pathEnd == conn[item][column][ei] IN
                IF pathEnd # <<>> /\ pathEnd[1] # row
                THEN << path \o pathEnd >>
                ELSE <<>>])])])

\* The first multiplication left out: the paths of length one.
Result1Skipped(conn) == conn

Result1(conn) ==
    [row \in 0..maxId |-> [column \in 0..maxId |->
        Result1Entry(conn, conn, row, column)]]

\* Second modified multiplication: paths[row][column].
PathsEntry(result1, conn, row, column) ==
    Flatten([it \in 1..(maxId + 1) |->
        LET item == Range(maxId + 1)[it] IN
        Flatten([pi \in 1..Len(result1[row][item]) |->
            LET path == result1[row][item][pi] IN
            Flatten([ei \in 1..Len(conn[item][column]) |->
                LET pathEnd == conn[item][column][ei] IN
                IF pathEnd # <<>> /\ Len(path) = 2
                   /\ pathEnd[1] # path[Len(path) - 1]
                THEN << path \o pathEnd >>
                ELSE <<>>])])])

Paths(conn) ==
    LET result1 == Result1(conn)
    IN  [row \in 0..maxId |-> [column \in 0..maxId |->
            PathsEntry(result1, conn, row, column)]]

----------------------------------------------------------------------------
(* makePockets: gender assignment *)

NoGenders == [p \in {} |-> FALSE]

GenderAllTrue(i) == TRUE

\* "gender relationship is same for two joints on figure, different for the
\* third (i == 0)"
WalkGender(i) == i # 0

\* The joint i of the figure path taken against the walk.
WalkEdgeReversed(path, i) == <<path[((i + 1) % 3) + 1], path[i + 1]>>

\* The joint i of the figure path: (path[i], path[(i+1) % 3]).
WalkEdge(path, i) == <<path[i + 1], path[((i + 1) % 3) + 1]>>

CanonicalNoFlip(p0, p1, gender) ==
    IF p0 > p1 THEN <<p1, p0, gender>> ELSE <<p0, p1, gender>>

\* "pair ids are not in order": swap the ids and invert the gender.
Canonical(p0, p1, gender) ==
    IF p0 > p1 THEN <<p1, p0, ~gender>> ELSE <<p0, p1, gender>>

\* The canonical pair and the gender the walk of path asks for at joint i.
Wanted(path, i) ==
    LET e == WalkEdge(path, i)
    IN  Canonical(e[1], e[2], WalkGender(i))

RecordAlways(g, pair, gender) == (pair :> gender) @@ g

\* "if (p0,p1) in genders: dup = 1 else: genders[(p0,p1)] = gender"
Record(g, pair, gender) ==
    IF pair \in DOMAIN g THEN g ELSE (pair :> gender) @@ g

----------------------------------------------------------------------------
(* Joint.__init__ and Pocket.__init__: the cross references *)

PocketInitIndex0(p, index, jid) == [joint |-> jid, post |-> p, index |-> 0]

\* Pocket.__init__: self.joint, self.post, self.index.
PocketInit(p, index, jid) == [joint |-> jid, post |-> p, index |-> index]

\* Joint.__init__: self.posts, self.id, self.pockets.
JointInit(p0, p1, id) ==
    [id |-> id, posts |-> <<p0, p1>>,
     pockets |-> <<PocketInit(p0, 0, id), PocketInit(p1, 1, id)>>]

\* Pocket.__init__: post.pockets.append(self), for both pockets of a joint.
AppendPockets(pp, joint) ==
    LET one(q, k) == [q EXCEPT ![k.post] = Append(@, k)]
    IN  one(one(pp, joint.pockets[1]), joint.pockets[2])

\* Pocket.__init__: self.post.isConnected = True, for both pockets of a joint.
MarkConnected(ic, joint) ==
    [m \in DOMAIN ic |->
        IF \E k \in 1..2 : joint.pockets[k].post = m THEN TRUE ELSE ic[m]]

JointOrderNeverSwapped(pair, gender) == pair

\* "reverse pair order to invert male/female relationship"
JointOrder(pair, gender) == IF gender THEN <<pair[2], pair[1]>> ELSE pair

FringeNever(g, pair) == FALSE

FringeAlways(g, pair) == TRUE

\* "joint not in a minor figure"
IsFringe(g, pair) == pair \notin DOMAIN g

\* The gender used to build the joint of pair: the recorded one, or the
\* default gender relationship 0.
PairGender(g, pair) == IF pair \in DOMAIN g THEN g[pair] ELSE FALSE

----------------------------------------------------------------------------
(* The state machine of makePockets *)

TopoInit ==
    /\ axes \in SUBSET Ids
    /\ dist \in [UnorderedPairs(axes) -> Dists]
    /\ pc = "makePockets"
    /\ a = 0
    /\ b = 0
    /\ tested = <<>>
    /\ pairs = <<>>
    /\ connections = <<>>
    /\ paths = <<>>
    /\ post = 0
    /\ pathIx = 1
    /\ edgeIx = 0
    /\ dup = 0
    /\ genders = NoGenders
    /\ log = <<>>
    /\ conflicts = <<>>
    /\ pairIx = 1
    /\ fringe = <<>>
    /\ joints = <<>>
    /\ postPockets = [m \in axes |-> <<>>]
    /\ isConnected = [m \in axes |-> FALSE]

\* makePockets, lines 151-156: initialise the connection matrix and enter
\* findPairs.
MakePocketsBegin ==
    /\ pc = "makePockets"
    /\ connections' = EmptyConnections
    /\ a' = FirstAB[1]
    /\ b' = FirstAB[2]
    /\ pc' = "findPairs"
    /\ UNCHANGED <<axes, dist, tested, pairs, paths, post, pathIx, edgeIx, dup,
                   genders, log, conflicts, pairIx, fringe, joints,
                   postPockets, isConnected>>
    /\ UNCHANGED nonTopoVars

\* findPairs: one iteration of the inner loop.
FindPairsTest ==
    /\ pc = "findPairs"
    /\ ~PairsLoopDone
    /\ LET ka == Key(a)
           kb == Key(b)
           nx == NextAB(a, b)
       IN  /\ tested' = Append(tested, <<ka, kb>>)
           /\ IF Accepts(Distance(ka, kb))
              THEN /\ pairs' = Append(pairs, <<ka, kb>>)
                   /\ connections' = Connect(connections, ka, kb)
              ELSE UNCHANGED <<pairs, connections>>
           /\ a' = nx[1]
           /\ b' = nx[2]
    /\ UNCHANGED <<axes, dist, pc, paths, post, pathIx, edgeIx, dup, genders,
                   log, conflicts, pairIx, fringe, joints, postPockets,
                   isConnected>>
    /\ UNCHANGED nonTopoVars

\* findPairs returns; makePockets composes the paths of length three.
ComposePaths ==
    /\ pc = "findPairs"
    /\ PairsLoopDone
    /\ paths' = Paths(connections)
    /\ pc' = "genders"
    /\ post' = 0
    /\ pathIx' = 1
    /\ edgeIx' = 0
    /\ dup' = 0
    /\ UNCHANGED <<axes, dist, a, b, tested, pairs, connections, genders,
                   log, conflicts, pairIx, fringe, joints, postPockets,
                   isConnected>>
    /\ UNCHANGED nonTopoVars

\* One iteration of "for i in range(3)" for the current path of
\* paths[post][post] (a path that is not of length three is passed over).
GenderStep ==
    /\ pc = "genders"
    /\ post <= maxId
    /\ pathIx <= Len(paths[post][post])
    /\ LET path == paths[post][post][pathIx]
       IN  IF Len(path) = 3
           THEN LET w    == Wanted(path, edgeIx)
                    pair == <<w[1], w[2]>>
                IN  /\ genders' = Record(genders, pair, w[3])
                    /\ log' = Append(log,
                           [walk |-> path, i |-> edgeIx, pair |-> pair,
                            wanted |-> w[3],
                            had |-> pair \in DOMAIN genders,
                            reported |-> pair \notin DOMAIN genders /\ dup = 1])
                    /\ conflicts' = IF pair \notin DOMAIN genders /\ dup = 1
                                    THEN Append(conflicts, pair)
                                    ELSE conflicts
                    /\ IF edgeIx < 2
                       THEN /\ edgeIx' = edgeIx + 1
                            /\ dup' = IF pair \in DOMAIN genders THEN 1 ELSE dup
                            /\ pathIx' = pathIx
                       ELSE /\ edgeIx' = 0
                            /\ dup' = 0
                            /\ pathIx' = pathIx + 1
           ELSE /\ pathIx' = pathIx + 1
                /\ UNCHANGED <<genders, log, conflicts, edgeIx, dup>>
    /\ UNCHANGED <<axes, dist, pc, a, b, tested, pairs, connections, paths,
                   post, pairIx, fringe, joints, postPockets, isConnected>>
    /\ UNCHANGED nonTopoVars

\* "for post in range(self.maxId+1)": the paths of this post are done.
NextPost ==
    /\ pc = "genders"
    /\ post <= maxId
    /\ pathIx > Len(paths[post][post])
    /\ post' = post + 1
    /\ pathIx' = 1
    /\ UNCHANGED <<axes, dist, pc, a, b, tested, pairs, connections, paths,
                   edgeIx, dup, genders, log, conflicts, pairIx, fringe,
                   joints, postPockets, isConnected>>
    /\ UNCHANGED nonTopoVars

\* The gender loop is over: "create all joints".
GendersDone ==
    /\ pc = "genders"
    /\ post > maxId
    /\ pc' = "joints"
    /\ pairIx' = 1
    /\ UNCHANGED <<axes, dist, a, b, tested, pairs, connections, paths, post,
                   pathIx, edgeIx, dup, genders, log, conflicts, fringe,
                   joints, postPockets, isConnected>>
    /\ UNCHANGED nonTopoVars

\* One iteration of "for pair in pairs": the joint of the pair and its two
\* pockets.
CreateJoint ==
    /\ pc = "joints"
    /\ pairIx <= Len(pairs)
    /\ pairIx \notin failing
    /\ LET pair   == pairs[pairIx]
           gender == PairGender(genders, pair)
           order  == JointOrder(pair, gender)
           joint  == JointInit(order[1], order[2], Len(joints))
       IN  /\ fringe' = IF IsFringe(genders, pair)
                        THEN Append(fringe, pair) ELSE fringe
           /\ joints' = Append(joints, joint)
           /\ postPockets' = AppendPockets(postPockets, joint)
           /\ isConnected' = MarkConnected(isConnected, joint)
    /\ pairIx' = pairIx + 1
    /\ UNCHANGED <<axes, dist, pc, a, b, tested, pairs, connections, paths,
                   post, pathIx, edgeIx, dup, genders, log, conflicts>>
    /\ UNCHANGED nonTopoVars

\* makePockets prints the fringe list and returns.
MakePocketsReturn ==
    /\ pc = "joints"
    /\ pairIx > Len(pairs)
    /\ pc' = "done"
    /\ UNCHANGED <<axes, dist, a, b, tested, pairs, connections, paths, post,
                   pathIx, edgeIx, dup, genders, log, conflicts, pairIx,
                   fringe, joints, postPockets, isConnected>>
    /\ UNCHANGED nonTopoVars

\* Joint.__init__, lines 64-70: both pockets are constructed, then a
\* p.create() raises (a NameError of createHoles or makeHoleToolpath); nothing
\* catches it, so makePockets and the script end there.
CreateJointRaise ==
    /\ pc = "joints"
    /\ pairIx <= Len(pairs)
    /\ pairIx \in failing
    /\ LET pair   == pairs[pairIx]
           gender == PairGender(genders, pair)
           order  == JointOrder(pair, gender)
           joint  == JointInit(order[1], order[2], Len(joints))
       IN  /\ fringe' = IF IsFringe(genders, pair)
                        THEN Append(fringe, pair) ELSE fringe
           /\ postPockets' = AppendPockets(postPockets, joint)
           /\ isConnected' = MarkConnected(isConnected, joint)
    /\ pc' = "raised"
    /\ UNCHANGED <<axes, dist, a, b, tested, pairs, connections, paths, post,
                   pathIx, edgeIx, dup, genders, log, conflicts, pairIx,
                   joints>>
    /\ UNCHANGED nonTopoVars

\* lap_joint.py, line 54, and Structure.writeGcode: after makePockets has
\* returned, one file per post.
WriteGcode ==
    /\ pc = "done"
    /\ written' = keys
    /\ pc' = "written"
    /\ UNCHANGED <<axes, dist, a, b, tested, pairs, connections, paths, post,
                   pathIx, edgeIx, dup, genders, log, conflicts, pairIx,
                   fringe, joints, postPockets, isConnected>>
    /\ UNCHANGED <<cutVars, emitVars, pocketVars, jointVars, failing>>

TopoNext ==
    \/ MakePocketsBegin
    \/ FindPairsTest
    \/ ComposePaths
    \/ GenderStep
    \/ NextPost
    \/ GendersDone
    \/ CreateJoint
    \/ MakePocketsReturn

----------------------------------------------------------------------------
(* Pocket.facePath *)

\* None (or False), and the value x.
None == <<>>

Some(x) == <<x>>

\* Rhino.Geometry.Interval as getFaceBounds returns it: Min <= Max.
Interval(lo, hi) == [Min |-> lo, Max |-> hi]

Intervals(S) == {r \in [Min : S, Max : S] : r.Min <= r.Max}

Point3d(x, y, z) == [X |-> x, Y |-> y, Z |-> z]

Last(s) == s[Len(s)]

\* Every pass starts in the (min U, min V) corner.
StartPointMin(ur, vr, start, d) == Point3d(ur.Min, vr.Min, d)

\* "start in correct corner"
StartPoint(ur, vr, start, d) ==
    Point3d(IF start[1] THEN ur.Max ELSE ur.Min,
            IF start[2] THEN vr.Max ELSE vr.Min, d)

\* The switchback condition "range.Min <= coordinate <= range.Max".
Within(r, c) == r.Min <= c /\ c <= r.Max

\* Every long move ends at the max end of the range.
FarEndAlwaysMax(r, direction) == r.Max

\* "move to other side of pocket"
FarEnd(r, direction) == IF direction THEN r.Max ELSE r.Min

FarBoundaryNear(r, startAtMax) == IF startAtMax THEN r.Max ELSE r.Min

\* "shorten the final zag to be at the edge of the pocket"
FarBoundary(r, startAtMax) == IF startAtMax THEN r.Min ELSE r.Max

\* One switchback with long moves in U (dir = 1): the two points appended.
ZigZagU(p, ur, zig, zag, s) ==
    LET q == [p EXCEPT !.X = FarEnd(ur, zig)]
    IN  <<q, [q EXCEPT !.Y = @ + zag * s]>>

\* One switchback with long moves in V (dir = 0): the two points appended.
ZigZagV(p, vr, zig, zag, s) ==
    LET q == [p EXCEPT !.Y = FarEnd(vr, zig)]
    IN  <<q, [q EXCEPT !.X = @ + zag * s]>>

\* The path with its last point replaced by q.
ReplaceLast(pth, q) == [pth EXCEPT ![Len(pth)] = q]

FaceIdle ==
    /\ fpc = "idle"
    /\ fD = 0
    /\ fStart = <<FALSE, FALSE>>
    /\ uRange = Interval(0, 0)
    /\ fPath = <<>>
    /\ zigDirection = FALSE
    /\ zagDirection = 1
    /\ faceResult = <<<<FALSE, FALSE>>, <<>>>>

\* facePath, lines 302-319 and 346-347: the bounds, the start corner and the
\* two directions.
FaceBegin ==
    /\ fpc = "call"
    /\ fPath' = <<StartPoint(uRange, vRange, fStart, fD)>>
    /\ IF fDir = 1
       THEN /\ zigDirection' = ~fStart[1]
            /\ zagDirection' = IF fStart[2] THEN -1 ELSE 1
       ELSE /\ zagDirection' = IF fStart[1] THEN -1 ELSE 1
            /\ zigDirection' = ~fStart[2]
    /\ fpc' = "loop"
    /\ UNCHANGED <<fD, fStart, fDir, uRange, vRange, step, faceResult, bpc,
                   startZ, endZ, stepDownD, finish, currentZ, result,
                   operations, layers>>
    /\ UNCHANGED boundsVars
    /\ UNCHANGED nonCutVars

\* facePath, lines 322-330 and 350-358: one pass of the switchback loop.
FaceZigZag ==
    /\ fpc = "loop"
    /\ IF fDir = 1
       THEN /\ Within(vRange, Last(fPath).Y)
            /\ fPath' = fPath \o ZigZagU(Last(fPath), uRange, zigDirection,
                                       zagDirection, step)
       ELSE /\ Within(uRange, Last(fPath).X)
            /\ fPath' = fPath \o ZigZagV(Last(fPath), vRange, zigDirection,
                                       zagDirection, step)
    /\ zigDirection' = ~zigDirection
    /\ UNCHANGED <<fpc, fD, fStart, fDir, uRange, vRange, step, zagDirection,
                   faceResult, bpc, startZ, endZ, stepDownD, finish, currentZ, result,
                   operations, layers>>
    /\ UNCHANGED boundsVars
    /\ UNCHANGED nonCutVars

\* facePath, lines 332-341 and 360-369: the loop is left, the final zag is
\* shortened, the final zig added and [end corner, path] returned.
FaceFinish ==
    /\ fpc = "loop"
    /\ IF fDir = 1
       THEN /\ ~Within(vRange, Last(fPath).Y)
            /\ LET zag == [Last(fPath) EXCEPT
                              !.Y = FarBoundary(vRange, fStart[2])]
                   zig == [zag EXCEPT !.X = FarEnd(uRange, zigDirection)]
               IN  /\ fPath' = Append(ReplaceLast(fPath, zag), zig)
                   /\ faceResult' =
                          <<<<zigDirection, zagDirection > 0>>, fPath'>>
       ELSE /\ ~Within(uRange, Last(fPath).X)
            /\ LET zag == [Last(fPath) EXCEPT
                              !.X = FarBoundary(uRange, fStart[1])]
                   zig == [zag EXCEPT !.Y = FarEnd(vRange, zigDirection)]
               IN  /\ fPath' = Append(ReplaceLast(fPath, zag), zig)
                   /\ faceResult' =
                          <<<<zagDirection > 0, zigDirection>>, fPath'>>
    /\ fpc' = "return"
    /\ UNCHANGED <<fD, fStart, fDir, uRange, vRange, step, zigDirection,
                   zagDirection, bpc, startZ, endZ, stepDownD, finish, currentZ,
                   result, operations, layers>>
    /\ UNCHANGED boundsVars
    /\ UNCHANGED nonCutVars

----------------------------------------------------------------------------
(* Pocket.blockPath *)

\* toolpath.py: Mill(path) and Rapid(end, A, clear).
Mill(pth) == [op |-> "Mill", path |-> pth]

Rapid(end, A, clear) == [op |-> "Rapid", end |-> end, A |-> A, clear |-> clear]

\* settings.gcode['millDiameter'] and Joint.skewFactor (a skew of 30
\* degrees); the face coordinates are in units of UVmillR.
MillDiameter == 1

SkewFactor == 2

\* UVmillR = millDiameter * skewFactor / 2
UVmillR == (MillDiameter * SkewFactor) \div 2

\* Rhino.Geometry.Interval(t0, t1): Min is the smaller end, Max the larger.
RhinoInterval(t0, t1) == IF t0 <= t1 THEN Interval(t0, t1) ELSE Interval(t1, t0)

\* uEnds = False, and uEnds = [lo, hi] where an end is False (empty) or a
\* coordinate.
NoEnds == [lo |-> None, hi |-> None]

UEnds(lo, hi) == [lo |-> lo, hi |-> hi]

\* uPost: the section of the post at the depth of a layer, grown by 1.5
\* mill diameters on each side, in face coordinates. The section follows the
\* profile of the post, so it differs from layer to layer and need not be
\* centred on the origin of the pocket.
UPosts == {Interval(-4, 3), Interval(-2, 4)}

\* face.Domain(1) of the pockets tried.
VDomains == {Interval(-3, 3), Interval(-3, 4)}

\* getFaceBounds, lines 269-278: "if uEnds: ... else: uRange = uPost".
URange(uPost, ends) ==
    RhinoInterval(IF ends.lo = None THEN uPost.Min ELSE ends.lo[1],
                  IF ends.hi = None THEN uPost.Max ELSE ends.hi[1])

\* getFaceBounds, lines 281-284: "if vEnds: ... else: face.Domain(1)".
VRange(dom, ends) ==
    IF ends = None THEN dom ELSE RhinoInterval(ends[1], ends[2])

\* "shrink ranges to account for endmill radius"
Shrink(r) == RhinoInterval(r.Min + UVmillR, r.Max - UVmillR)

\* getFaceBounds(d, uEnds, vEnds) where the section at depth d is uPost.
GetFaceBounds(uPost, dom, ue, ve) ==
    <<Shrink(URange(uPost, ue)), Shrink(VRange(dom, ve))>>

\* The overrides blockPath is called with: none, one side of a band, the
\* other side, a band in V.
BlockEnds ==
    {<<NoEnds, None>>, <<UEnds(None, Some(-1)), None>>,
     <<UEnds(Some(1), None), None>>, <<NoEnds, <<-2, 2>>>>}

\* The step-overs of a block.
BlockSteps == {1, 2}

Max2(x, y) == IF x >= y THEN x ELSE y

\* "start at first cut layer for block, or bottom of pocket if closer"
FirstZ(sZ, eZ, D) == Max2(sZ - D, eZ)

NextZNoClamp(z, eZ, D) == z - D

\* "move to next level", "within one layer of pocket face - finish at pocket
\* face"
NextZ(z, eZ, D) == IF z - D < eZ THEN eZ ELSE z - D

\* The Mill of a layer alone, its first point included.
LayerOperationsNoRapid(pth) == <<Mill(pth)>>

\* "insert rapid move before this mill": the two operations of a layer.
LayerOperations(pth) == <<Rapid(Head(pth), None, FALSE), Mill(Tail(pth))>>

\* "corner vertices around edge of pocket"
Edge(ur, vr, z) ==
    <<Point3d(ur.Min, vr.Min, z), Point3d(ur.Max, vr.Min, z),
      Point3d(ur.Max, vr.Max, z), Point3d(ur.Min, vr.Max, z)>>

\* int((1 if corner[1] else -1) * (corner[0] + .5) + 1.5), in halves.
EdgeStart(corner) ==
    LET u == IF corner[1] THEN 1 ELSE 0
        sgn == IF corner[2] THEN 1 ELSE -1
    IN  (sgn * (2 * u + 1) + 3) \div 2

\* rotated = edge[start:] + edge[:start]; path = rotated[0:3]
FinishPath(ur, vr, z, corner) ==
    LET edge == Edge(ur, vr, z)
        st == EdgeStart(corner)
        rotated == SubSeq(edge, st + 1, 4) \o SubSeq(edge, 1, st)
    IN  SubSeq(rotated, 1, 3)

BlockIdle ==
    /\ bpc = "idle"
    /\ startZ = 0
    /\ endZ = 0
    /\ stepDownD = 1
    /\ finish = FALSE
    /\ currentZ = 0
    /\ result = <<<<FALSE, FALSE>>, <<>>>>
    /\ operations = <<>>
    /\ layers = <<>>

\* blockPath, lines 379-387.
BlockBegin ==
    /\ bpc = "begin"
    /\ currentZ' = FirstZ(startZ, endZ, stepDownD)
    /\ operations' = <<>>
    /\ result' = <<<<FALSE, FALSE>>, <<>>>>
    /\ bpc' = "layer"
    /\ UNCHANGED <<fpc, fD, fStart, fDir, uRange, vRange, step, fPath,
                   zigDirection, zagDirection, faceResult, startZ, endZ,
                   stepDownD, finish, layers>>
    /\ UNCHANGED boundsVars
    /\ UNCHANGED nonCutVars

\* blockPath, line 390: facePath is called for the layer at currentZ,
\* starting in the corner the layer before ended in.
BlockCallFace ==
    /\ bpc = "layer"
    /\ \E uPost \in UPosts :
          LET bounds == GetFaceBounds(uPost, vDomain, uEnds, vEnds)
          IN  /\ uRange' = bounds[1]
              /\ vRange' = bounds[2]
    /\ fD' = currentZ
    /\ fStart' = result[1]
    /\ fpc' = "call"
    /\ bpc' = "inFace"
    /\ layers' = Append(layers, currentZ)
    /\ UNCHANGED <<fDir, step, fPath, zigDirection, zagDirection,
                   faceResult, startZ, endZ, stepDownD, finish, currentZ,
                   result, operations>>
    /\ UNCHANGED boundsVars
    /\ UNCHANGED nonCutVars

\* blockPath, lines 390-406: facePath has returned; the Mill of the layer
\* with a Rapid before it, then the next level or the end of the loop.
BlockAfterFace ==
    /\ bpc = "inFace"
    /\ fpc = "return"
    /\ result' = faceResult
    /\ operations' = operations \o LayerOperations(faceResult[2])
    /\ IF currentZ > endZ
       THEN /\ currentZ' = NextZ(currentZ, endZ, stepDownD)
            /\ bpc' = "layer"
       ELSE /\ bpc' = "finish"
            /\ UNCHANGED currentZ
    /\ fpc' = "idle"
    /\ UNCHANGED <<fD, fStart, fDir, uRange, vRange, step, fPath, zigDirection,
                   zagDirection, faceResult, startZ, endZ, stepDownD, finish,
                   layers>>
    /\ UNCHANGED boundsVars
    /\ UNCHANGED nonCutVars

\* blockPath, lines 408-431: the optional clean-up of the pocket edge, and
\* the return of the toolpath.
BlockFinish ==
    /\ bpc = "finish"
    /\ operations' =
           IF finish
           THEN Append(operations,
                       Mill(FinishPath(uRange, vRange, currentZ, result[1])))
           ELSE operations
    /\ bpc' = "done"
    /\ UNCHANGED <<fpc, fD, fStart, fDir, uRange, vRange, step, fPath,
                   zigDirection, zagDirection, faceResult, startZ, endZ,
                   stepDownD, finish, currentZ, result, layers>>
    /\ UNCHANGED boundsVars
    /\ UNCHANGED nonCutVars

----------------------------------------------------------------------------
(* The code emitter *)

\* settings.gcode['feedrate'] and settings.gcode['clearance'].
Feedrate == 3

Clearance == 9

\* settings.gcode['home']: x, y, z and angle of the home position.
Home == <<0, 0, Clearance, 0>>

\* settings.gcode['approach'] is approach / ApproachDen: 0.5 and 1.
ApproachDen == 2

ApproachRatios == {1, 2}

\* One word of the text: a letter and its number (0 for a word without one).
W(w, v) == [w |-> w, v |-> v]

NL == W("\n", 0)

StaleGcode == [text |-> <<>>, feedRate |-> feedRate]

\* common.Gcode(): the new accumulator.
FreshGcode == [text |-> <<>>, feedRate |-> 0]

\* toolpath.py: Arc, by the end point of its arc and the offset from its
\* start point to its centre.
Arc(end, offset) == [op |-> "Arc", end |-> end, offset |-> offset]

\* round(feedrate * approach, precision), halves rounded away from zero.
PlungeFeed(ap) == (2 * Feedrate * ap + ApproachDen) \div (2 * ApproachDen)

\* The feed word never written.
FeedWordNever(g, newFR) == <<NL>>

\* "change feedrate if necessary"
FeedWord(g, newFR) == IF g.feedRate # newFR THEN <<W("F", newFR), NL>> ELSE <<NL>>

\* Mill.makeGcode: one line per point.
RECURSIVE MillGcode(_, _)
MillGcode(points, g) ==
    IF points = <<>> THEN g
    ELSE LET p == Head(points)
             line == <<W("X", p.X), W("Y", p.Y), W("Z", p.Z)>>
                         \o FeedWord(g, Feedrate)
         IN  MillGcode(Tail(points),
                       [text |-> g.text \o line, feedRate |-> Feedrate])

\* Rapid.makeGcode: "if self.clear", the move up to the clearance plane.
Retract(o) == IF o.clear THEN <<W("Z", Clearance), NL>> ELSE <<>>

RotaryWordNotNegated(o) == IF o.A # None THEN <<W("A", o.A[1])>> ELSE <<>>

\* Rapid.makeGcode: "if self.A is not None", the word of the rotary axis.
RotaryWord(o) == IF o.A # None THEN <<W("A", -o.A[1])>> ELSE <<>>

\* Rapid.makeGcode.
RapidGcode(o, ap, g) ==
    [text |-> g.text \o <<W("G00", 0)>> \o Retract(o)
                  \o <<W("X", o.end.X), W("Y", o.end.Y)>> \o RotaryWord(o)
                  \o <<W("(Rapid Positioning)", 0), NL>>
                  \o <<W("G01", 0), W("Z", o.end.Z), W("F", PlungeFeed(ap)),
                       W("(Linear Interpolation)", 0), NL>>,
     feedRate |-> PlungeFeed(ap)]

\* Arc.makeGcode.
ArcGcode(o, g) ==
    [text |-> g.text \o <<W("G02", 0), W("X", o.end.X), W("Y", o.end.Y),
                          W("I", o.offset.X), W("J", o.offset.Y)>>
                  \o FeedWord(g, Feedrate),
     feedRate |-> Feedrate]

\* o.makeGcode(transform=transform, gcode=gcode) with the identity transform.
MakeGcode(o, ap, g) ==
    CASE o.op = "Mill" -> MillGcode(o.path, g)
      [] o.op = "Rapid" -> RapidGcode(o, ap, g)
      [] o.op = "Arc" -> ArcGcode(o, g)

\* The accumulator of the run.
Gcode == [text |-> text, feedRate |-> feedRate]

\* The history entry of something emitted into g0, giving g1.
Mark(what, pocket, o, g0, g1) ==
    [what |-> what, pocket |-> pocket, op |-> o,
     from |-> Len(g0.text) + 1, to |-> Len(g1.text),
     feedBefore |-> g0.feedRate, feedAfter |-> g1.feedRate]

NoOp == [op |-> "None"]

HomeRapidNoClear ==
    Rapid(Point3d(Home[1], Home[2], Home[3]), Some(Home[4]), FALSE)

\* Rapid(Point3d(*home[0:3]), A=home[3], clear=True)
HomeRapid == Rapid(Point3d(Home[1], Home[2], Home[3]), Some(Home[4]), TRUE)

EmitIdle ==
    /\ approach = 1
    /\ memberPockets = <<>>
    /\ gpc = "idle"
    /\ pocketIx = 1
    /\ opIx = 1
    /\ text = <<>>
    /\ feedRate = 0
    /\ marks = <<>>
    /\ pass = 1
    /\ firstText = <<>>

\* Post.makeGcode, lines 260-265: the preamble and the comment of the post.
PostGcodeBegin ==
    /\ gpc = "begin"
    /\ LET g1 == [Gcode EXCEPT !.text =
                     @ \o <<W("preamble", 0), NL, W("(Starting Post)", 0), NL>>]
       IN  /\ text' = g1.text
           /\ marks' = Append(marks, Mark("preamble", 0, NoOp, Gcode, g1))
    /\ gpc' = "pockets"
    /\ pocketIx' = 1
    /\ UNCHANGED <<approach, memberPockets, opIx, feedRate, pass, firstText>>
    /\ UNCHANGED nonEmitVars

\* Pocket.makeGcode, line 458: the comment that names the joint.
PocketGcodeBegin ==
    /\ gpc = "pockets"
    /\ pocketIx <= Len(memberPockets)
    /\ LET g1 == [Gcode EXCEPT !.text =
                     @ \o <<NL, W("(Starting Pocket)",
                                  memberPockets[pocketIx].joint), NL>>]
       IN  /\ text' = g1.text
           /\ marks' = Append(marks, Mark("tag", pocketIx, NoOp, Gcode, g1))
    /\ gpc' = "ops"
    /\ opIx' = 1
    /\ UNCHANGED <<approach, memberPockets, pocketIx, feedRate, pass,
                   firstText>>
    /\ UNCHANGED nonEmitVars

\* Toolpath.makeGcode, lines 113-114: the next operation of the pocket.
EmitOperation ==
    /\ gpc = "ops"
    /\ opIx <= Len(memberPockets[pocketIx].toolpath)
    /\ LET o == memberPockets[pocketIx].toolpath[opIx]
           g1 == MakeGcode(o, approach, Gcode)
       IN  /\ text' = g1.text
           /\ feedRate' = g1.feedRate
           /\ marks' = Append(marks, Mark("op", pocketIx, o, Gcode, g1))
    /\ opIx' = opIx + 1
    /\ UNCHANGED <<approach, memberPockets, gpc, pocketIx, pass, firstText>>
    /\ UNCHANGED nonEmitVars

\* Toolpath.makeGcode returns; Post.makeGcode goes on to the next pocket.
PocketGcodeEnd ==
    /\ gpc = "ops"
    /\ opIx > Len(memberPockets[pocketIx].toolpath)
    /\ pocketIx' = pocketIx + 1
    /\ gpc' = "pockets"
    /\ UNCHANGED <<approach, memberPockets, opIx, text, feedRate, marks, pass,
                   firstText>>
    /\ UNCHANGED nonEmitVars

\* Post.makeGcode, lines 270-276: "return to home point when finished".
PostGcodeHome ==
    /\ gpc = "pockets"
    /\ pocketIx > Len(memberPockets)
    /\ LET g1 == RapidGcode(HomeRapid, approach, Gcode)
       IN  /\ text' = g1.text
           /\ feedRate' = g1.feedRate
           /\ marks' = Append(marks, Mark("home", 0, HomeRapid, Gcode, g1))
    /\ gpc' = "done"
    /\ UNCHANGED <<approach, memberPockets, pocketIx, opIx, pass, firstText>>
    /\ UNCHANGED nonEmitVars

\* Structure.writeGcode, lines 296-300: the same program is emitted once
\* more into a new accumulator.
EmitAgain ==
    /\ gpc = "done"
    /\ pass = 1
    /\ firstText' = text
    /\ text' = FreshGcode.text
    /\ feedRate' = FreshGcode.feedRate
    /\ marks' = <<>>
    /\ pass' = 2
    /\ gpc' = "begin"
    /\ UNCHANGED <<approach, memberPockets, pocketIx, opIx>>
    /\ UNCHANGED nonEmitVars

\* The operations tried: a Rapid without rotation, a Rapid with rotation 0
\* and one with rotation 3 and the clear flag, a Mill and an Arc.
EmitRapids ==
    {Rapid(Point3d(1, 2, 0), None, FALSE),
     Rapid(Point3d(2, 1, 1), Some(3), TRUE)}

EmitCuts ==
    {Mill(<<Point3d(1, 0, 0), Point3d(1, 1, 0)>>),
     Arc(Point3d(2, 0, 0), Point3d(0, 1, 0))}

EmitOps == EmitRapids \cup EmitCuts

UnclearedRotation == Rapid(Point3d(0, 1, 2), Some(0), FALSE)

\* The toolpaths tried: none, every single operation, every pair of
\* operations that starts with a Rapid or a Mill, and a Rapid with a rotation
\* and without the clear flag, alone and before a Mill or an Arc.
EmitToolpaths ==
    {<<>>} \cup {<<o>> : o \in EmitOps}
           \cup {<<o1, o2>> : o1 \in EmitOps \ {o \in EmitOps : o.op = "Arc"},
                              o2 \in EmitOps}
           \cup {<<UnclearedRotation>>}
           \cup {<<UnclearedRotation, m>> : m \in EmitCuts}

\* The pockets of a member, in the order of creation: the k-th is the
\* member's half of joint 2k-1.
EmitPockets ==
    UNION {{[k \in 1..n |-> [joint |-> 2 * k - 1, toolpath |-> tp[k]]] :
                tp \in [1..n -> EmitToolpaths]} : n \in 0..MaxPockets}

----------------------------------------------------------------------------
(* Pocket.makeToolpath and Pocket_mfBar.makeToolpath *)

\* settings.pocket['barHeight'], and self.holes[0].Length and
\* settings.pocket['markDepth'] in quarters of a unit.
BarHeight == 2

HoleLength == 8

MarkDepth == 4

\* The values of settings.pocket['markDatum'] tried.
MarkDatums == {-1, 0, 1, 2, 3}

\* profileBounds.Max.Z, the top of the post above the pocket face.
ProfileTops == {2, 3}

\* One call of blockPath: its arguments, and whether makeToolpath sets the
\* clear flag of the first operation it returns.
BlockCall(sZ, eZ, fin, d, ue, ve, clr) ==
    [startZ |-> sZ, endZ |-> eZ, finish |-> fin, dir |-> d, uEnds |-> ue,
     vEnds |-> ve, clear |-> clr]

\* settings.pocket['barWidth'] and settings.pocket['gap'].
BarWidth == 1

Gap == 1

\* localOrigin = face.ClosestPoint(origin): the U and V of the pocket's
\* origin.
LocalOrigin == <<0, 0>>

\* "find half of bar width": barWidth/2 * round(skewFactor, 5)
BarOffset == (BarWidth * SkewFactor) \div 2

\* "find half of groove width": (barWidth/2 + gap) * round(skewFactor, 5)
GrooveOffset == ((BarWidth + 2 * Gap) * SkewFactor) \div 2

\* "create U interval for bar"
BarRange == <<LocalOrigin[1] - BarOffset, LocalOrigin[1] + BarOffset>>

\* "create V interval for groove"
GrooveRange == <<LocalOrigin[2] - GrooveOffset, LocalOrigin[2] + GrooveOffset>>

\* Pocket.makeToolpath: "mill down to pocket face".
DefaultCalls(top) == <<BlockCall(top, 0, FALSE, 1, NoEnds, None, FALSE)>>

\* Pocket_mfBar.makeToolpath, index 0: down to the top of the groove, then
\* the groove.
FemaleCalls(top) ==
    <<BlockCall(top, 0, FALSE, 1, NoEnds, None, FALSE),
      BlockCall(0, 0 - BarHeight, FALSE, 1, NoEnds, GrooveRange, FALSE)>>

\* Pocket_mfBar.makeToolpath, index 1: down to the top of the bar, then the
\* two sides of the bar.
MaleCalls(top) ==
    <<BlockCall(top, BarHeight, FALSE, 1, NoEnds, None, FALSE),
      BlockCall(BarHeight, 0, TRUE, 0, UEnds(None, Some(BarRange[1])), None,
                TRUE),
      BlockCall(BarHeight, 0, TRUE, 0, UEnds(Some(BarRange[2]), None), None,
                TRUE)>>

Calls ==
    IF pocketType = 0 THEN DefaultCalls(profileTop)
    ELSE IF pocketIndex = 0 THEN FemaleCalls(profileTop)
    ELSE MaleCalls(profileTop)

\* The first operation left as blockPath returned it.
WithoutClear(ops) == ops

\* newPath.operations[0].clear = True
WithClear(ops) == [ops EXCEPT ![1].clear = TRUE]

WithRotationOnly(ops, rot) == [ops EXCEPT ![1].A = Some(rot)]

\* "add initial rotation", "clear post at beginning of pocket"
WithInitialRotation(ops, rot) ==
    [ops EXCEPT ![1].A = Some(rot), ![1].clear = TRUE]

\* makeHoleToolpath: the datum options it knows.
KnownDatum(datum) == datum \in {1, 2}

\* "add hole mark if wanted"
MarkWanted(datum) == datum > 0

\* makeHoleToolpath: "Z height of mark on rotated post".
MarkZ(datum) ==
    IF datum = 1 THEN HoleLength - MarkDepth
    ELSE IF HoleLength > MarkDepth THEN MarkDepth
    ELSE HoleLength - 1

\* UVToPost(localOrigin, A=180): the centre of the hole on the back of the
\* post.
HoleCenter == Point3d(1, 1, 0)

\* makeHoleToolpath: the Rapid above the mark, the Mill of one point, the
\* Rapid down to the bottom of the mark.
HoleToolpath(datum, rot) ==
    LET top == [HoleCenter EXCEPT !.Z = Clearance]
        bottom == [HoleCenter EXCEPT !.Z = @ + MarkZ(datum)]
    IN  <<Rapid(top, Some(rot - 180), TRUE), Mill(<<top>>),
          Rapid(bottom, None, FALSE)>>

ToolpathIdle ==
    /\ pocketType = 0
    /\ pocketIndex = 0
    /\ rotation = 0
    /\ markDatum = 0
    /\ profileTop = 0
    /\ mpc = "idle"
    /\ callNo = 1
    /\ toolpath = <<>>
    /\ blocks = <<>>

\* makeToolpath calls blockPath (lines 443, 526, 533, 541, 548 and 553).
MakeToolpathCall ==
    /\ mpc = "call"
    /\ callNo <= Len(Calls)
    /\ bpc' = "begin"
    /\ startZ' = Calls[callNo].startZ
    /\ endZ' = Calls[callNo].endZ
    /\ finish' = Calls[callNo].finish
    /\ fDir' = Calls[callNo].dir
    /\ uEnds' = Calls[callNo].uEnds
    /\ vEnds' = Calls[callNo].vEnds
    /\ layers' = <<>>
    /\ mpc' = "block"
    /\ UNCHANGED <<fpc, fD, fStart, uRange, vRange, step, fPath, zigDirection,
                   zagDirection, faceResult, stepDownD, currentZ, result,
                   operations, vDomain>>
    /\ UNCHANGED <<pocketType, pocketIndex, rotation, markDatum, profileTop,
                   callNo,                    toolpath, blocks>>
    /\ UNCHANGED <<topoVars, emitVars, runVars, jointVars>>

\* blockPath has returned: the first block is the toolpath, the later ones
\* are appended with toolpath.extend(newPath).
MakeToolpathExtend ==
    /\ mpc = "block"
    /\ bpc = "done"
    /\ LET newPath == IF Calls[callNo].clear THEN WithClear(operations)
                      ELSE operations
       IN  /\ toolpath' = toolpath \o newPath
           /\ blocks' = Append(blocks,
                               [call |-> Calls[callNo], layers |-> layers,
                                operations |-> newPath])
    /\ callNo' = callNo + 1
    /\ bpc' = "idle"
    /\ mpc' = "call"
    /\ UNCHANGED <<fpc, fD, fStart, fDir, uRange, vRange, step, fPath,
                   zigDirection, zagDirection, faceResult, startZ, endZ,
                   stepDownD, finish, currentZ, result, operations, layers>>
    /\ UNCHANGED boundsVars
    /\ UNCHANGED <<pocketType, pocketIndex, rotation, markDatum, profileTop>>
    /\ UNCHANGED <<topoVars, emitVars, runVars, jointVars>>

\* Pocket.makeToolpath, lines 445-450, and Pocket_mfBar.makeToolpath, lines
\* 589-597: the rotation and the clear flag of the first operation, the hole
\* mark of a slide-bar pocket, and the return of the toolpath.
MakeToolpathReturn ==
    /\ mpc = "call"
    /\ callNo > Len(Calls)
    /\ LET rotated == WithInitialRotation(toolpath, rotation)
       IN  IF pocketType = 1 /\ MarkWanted(markDatum)
           THEN /\ KnownDatum(markDatum)
                /\ toolpath' = rotated \o HoleToolpath(markDatum, rotation)
           ELSE toolpath' = rotated
    /\ mpc' = "done"
    /\ UNCHANGED <<pocketType, pocketIndex, rotation, markDatum, profileTop,
                   callNo,                    blocks>>
    /\ UNCHANGED <<topoVars, cutVars, emitVars, runVars, jointVars>>

\* makeHoleToolpath, lines 714-715: "Screw mark requested, but unknown datum
\* option specified!"; makeToolpath returns nothing.
MakeToolpathRaise ==
    /\ mpc = "call"
    /\ callNo > Len(Calls)
    /\ pocketType = 1
    /\ MarkWanted(markDatum)
    /\ ~KnownDatum(markDatum)
    /\ mpc' = "raised"
    /\ UNCHANGED <<pocketType, pocketIndex, rotation, markDatum, profileTop,
                   callNo,                    toolpath, blocks>>
    /\ UNCHANGED <<topoVars, cutVars, emitVars, runVars, jointVars>>

\* Pocket.create stores the toolpath; Post.makeGcode is then run on the
\* member, whose only pocket this is.
PocketCreated ==
    /\ mpc = "done"
    /\ gpc = "idle"
    /\ memberPockets' = <<[joint |-> 1, toolpath |-> toolpath]>>
    /\ gpc' = "begin"
    /\ UNCHANGED <<approach, pocketIx, opIx, text, feedRate, marks, pass,
                   firstText>>
    /\ UNCHANGED <<topoVars, cutVars, pocketVars, runVars, jointVars>>

----------------------------------------------------------------------------
(* Joint.commonFace: the skew of the shared face and its correction factor *)

\* The largest coordinate of the two face edges tried.
MaxEdge == 2

\* math.sin(math.pi) is 1.2246e-16, not 0: the float math.pi lies just below
\* pi. Its square is written 1/TinySinDen, a positive value below the squared
\* sine of every other angle the edges of the model make.
TinySinDen == 1000000

Edges == {e \in (-MaxEdge..MaxEdge) \X (-MaxEdge..MaxEdge) : e # <<0, 0>>}

Dot(u, v) == u[1] * v[1] + u[2] * v[2]

Cross(u, v) == u[1] * v[2] - u[2] * v[1]

Sign(x) == IF x > 0 THEN 1 ELSE IF x < 0 THEN -1 ELSE 0

\* Vector3d.VectorAngle(u, v): the angle in [0, pi] between the two edges,
\* held as the sign of its cosine and its squared sine, the fraction
\* sinSq[1] / sinSq[2].
VectorAngle(u, v) ==
    [cos |-> Sign(Dot(u, v)),
     sinSq |-> <<Cross(u, v) * Cross(u, v), Dot(u, u) * Dot(v, v)>>]

\* The angle math.pi.
IsStraightAngle(s) == s.sinSq[1] = 0 /\ s.cos < 0

\* math.sin(s), squared: exactly 0 only for the angle 0.0.
SinSq(s) == IF IsStraightAngle(s) THEN <<1, TinySinDen>> ELSE s.sinSq

\* 1/x for the fraction x; Python raises ZeroDivisionError for x = 0.0.
Reciprocal(x) == [raised |-> x[1] = 0, sq |-> <<x[2], x[1]>>]

NoFactor == [raised |-> FALSE, sq |-> <<0, 0>>]

\* No joint is being built.
CommonFaceIdle ==
    /\ cpc = "idle"
    /\ edgeU = <<1, 0>>
    /\ edgeV = <<0, 1>>
    /\ skew = VectorAngle(<<1, 0>>, <<0, 1>>)
    /\ skewFactor = NoFactor

\* self.skew = VectorAngle(corners[1] - corners[0], corners[3] - corners[0])
CommonFaceSkew ==
    /\ cpc = "corners"
    /\ skew' = VectorAngle(edgeU, edgeV)
    /\ cpc' = "skew"
    /\ UNCHANGED <<edgeU, edgeV, skewFactor>>
    /\ UNCHANGED nonJointVars

\* self.skewFactor = 1/math.sin(self.skew)
CommonFaceSkewFactor ==
    /\ cpc = "skew"
    /\ skewFactor' = Reciprocal(SinSq(skew))
    /\ cpc' = IF skewFactor'.raised THEN "raised" ELSE "done"
    /\ UNCHANGED <<edgeU, edgeV, skew>>
    /\ UNCHANGED nonJointVars

----------------------------------------------------------------------------
(* The specifications *)

\* No pocket raises and no file is written.
RunIdle ==
    /\ failing = {}
    /\ written = <<>>

TopoIdle ==
    /\ axes = {}
    /\ dist = NoGenders
    /\ pc = "idle"
    /\ a = 0
    /\ b = 0
    /\ tested = <<>>
    /\ pairs = <<>>
    /\ connections = <<>>
    /\ paths = <<>>
    /\ post = 0
    /\ pathIx = 1
    /\ edgeIx = 0
    /\ dup = 0
    /\ genders = NoGenders
    /\ log = <<>>
    /\ conflicts = <<>>
    /\ pairIx = 1
    /\ fringe = <<>>
    /\ joints = <<>>
    /\ postPockets = NoGenders
    /\ isConnected = NoGenders

\* getFaceBounds is not being called.
BoundsIdle ==
    /\ uEnds = NoEnds
    /\ vEnds = None
    /\ vDomain = Interval(0, 0)

CutIdle ==
    /\ FaceIdle
    /\ BlockIdle
    /\ BoundsIdle
    /\ fDir = 1
    /\ vRange = Interval(0, 0)
    /\ step = 1

\* The topology resolver: makePockets on every structure of up to MaxId + 1
\* members.
Init ==
    TopoInit /\ CutIdle /\ EmitIdle /\ ToolpathIdle /\ RunIdle /\ CommonFaceIdle

Next == TopoNext

Spec == Init /\ [][Next]_vars

\* facePath alone, called with every start corner, direction, pair of ranges
\* and step-over.
FaceInit ==
    /\ TopoIdle
    /\ RunIdle
    /\ CommonFaceIdle
    /\ ToolpathIdle
    /\ BlockIdle
    /\ BoundsIdle
    /\ EmitIdle
    /\ fpc = "call"
    /\ fD = 0
    /\ fStart \in BOOLEAN \X BOOLEAN
    /\ fDir \in {0, 1}
    /\ uRange \in Intervals(0..MaxCoord)
    /\ vRange \in Intervals(0..MaxCoord)
    /\ step \in 1..MaxStep
    /\ fPath = <<>>
    /\ zigDirection = FALSE
    /\ zagDirection = 1
    /\ faceResult = <<<<FALSE, FALSE>>, <<>>>>

FaceNext ==
    \/ FaceBegin
    \/ FaceZigZag
    \/ FaceFinish

SpecFace == FaceInit /\ [][FaceNext]_vars

\* blockPath, called with every startZ, endZ, step-down, finish and dir.
BlockInit ==
    /\ TopoIdle
    /\ RunIdle
    /\ CommonFaceIdle
    /\ ToolpathIdle
    /\ FaceIdle
    /\ EmitIdle
    /\ bpc = "begin"
    /\ startZ \in 0..MaxZ
    /\ endZ \in 0..MaxZ
    /\ stepDownD \in 1..MaxStep
    /\ finish \in BOOLEAN
    /\ fDir \in {0, 1}
    /\ vRange = Interval(0, 0)
    /\ vDomain \in VDomains
    /\ \E ends \in BlockEnds : uEnds = ends[1] /\ vEnds = ends[2]
    /\ step \in BlockSteps
    /\ currentZ = 0
    /\ result = <<<<FALSE, FALSE>>, <<>>>>
    /\ operations = <<>>
    /\ layers = <<>>

BlockNext ==
    \/ BlockBegin
    \/ BlockCallFace
    \/ FaceBegin
    \/ FaceZigZag
    \/ FaceFinish
    \/ BlockAfterFace
    \/ BlockFinish

SpecBlock == BlockInit /\ [][BlockNext]_vars

\* Post.makeGcode on a member with every list of up to MaxPockets pockets of
\* these toolpaths, emitted twice.
EmitInit ==
    /\ TopoIdle
    /\ RunIdle
    /\ CommonFaceIdle
    /\ ToolpathIdle
    /\ CutIdle
    /\ approach \in ApproachRatios
    /\ memberPockets \in EmitPockets
    /\ gpc = "begin"
    /\ pocketIx = 1
    /\ opIx = 1
    /\ text = <<>>
    /\ feedRate = 0
    /\ marks = <<>>
    /\ pass = 1
    /\ firstText = <<>>

EmitNext ==
    \/ PostGcodeBegin
    \/ PocketGcodeBegin
    \/ EmitOperation
    \/ PocketGcodeEnd
    \/ PostGcodeHome
    \/ EmitAgain

SpecEmit == EmitInit /\ [][EmitNext]_vars

\* Pocket.create of one pocket of either kind and index, followed by
\* Post.makeGcode on its member.
ToolpathInit ==
    /\ TopoIdle
    /\ RunIdle
    /\ CommonFaceIdle
    /\ FaceIdle
    /\ EmitIdle
    /\ bpc = "idle"
    /\ startZ = 0
    /\ endZ = 0
    /\ stepDownD \in BlockSteps
    /\ finish = FALSE
    /\ fDir = 1
    /\ vRange = Interval(0, 0)
    /\ uEnds = NoEnds
    /\ vEnds = None
    /\ vDomain = Interval(-3, 3)
    /\ step = 2
    /\ currentZ = 0
    /\ result = <<<<FALSE, FALSE>>, <<>>>>
    /\ operations = <<>>
    /\ layers = <<>>
    /\ pocketType \in {0, 1}
    /\ pocketIndex \in {0, 1}
    /\ rotation \in {0, 3}
    /\ markDatum \in MarkDatums
    /\ profileTop \in ProfileTops
    /\ mpc = "call"
    /\ callNo = 1
    /\ toolpath = <<>>
    /\ blocks = <<>>

ToolpathNext ==
    \/ MakeToolpathCall
    \/ BlockNext
    \/ MakeToolpathExtend
    \/ MakeToolpathReturn
    \/ MakeToolpathRaise
    \/ PocketCreated
    \/ PostGcodeBegin
    \/ PocketGcodeBegin
    \/ EmitOperation
    \/ PocketGcodeEnd
    \/ PostGcodeHome

SpecToolpath == ToolpathInit /\ [][ToolpathNext]_vars

\* The main script from makePockets to writeGcode, where the creation of
\* the pockets of at most one of the first two joints raises.
Failings == {{}, {1}, {2}}

RunInit ==
    /\ TopoInit
    /\ CutIdle
    /\ EmitIdle
    /\ ToolpathIdle
    /\ failing \in Failings
    /\ written = <<>>
    /\ CommonFaceIdle

RunNext ==
    \/ TopoNext
    \/ CreateJointRaise
    \/ WriteGcode

SpecRun == RunInit /\ [][RunNext]_vars

\* Joint.commonFace from the corners on, for every pair of face edges with
\* coordinates up to MaxEdge.
SkewInit ==
    /\ TopoIdle
    /\ RunIdle
    /\ ToolpathIdle
    /\ CutIdle
    /\ EmitIdle
    /\ cpc = "corners"
    /\ edgeU \in Edges
    /\ edgeV \in Edges
    /\ skew = VectorAngle(<<1, 0>>, <<0, 1>>)
    /\ skewFactor = NoFactor

SkewNext ==
    \/ CommonFaceSkew
    \/ CommonFaceSkewFactor

SpecSkew == SkewInit /\ [][SkewNext]_vars

\* blockPath runs to its end without being suspended: the script is one
\* synchronous thread.
SpecBlockFair == SpecBlock /\ WF_vars(BlockNext)

----------------------------------------------------------------------------
(* Properties of the topology resolver *)

PairSet == {pairs[k] : k \in 1..Len(pairs)}

\* The triples of mutually paired members (the minor figures).
Triangles ==
    {t \in axes \X axes \X axes :
        /\ t[1] < t[2] /\ t[2] < t[3]
        /\ <<t[1], t[2]>> \in PairSet
        /\ <<t[1], t[3]>> \in PairSet
        /\ <<t[2], t[3]>> \in PairSet}

TriangleEdges(t) == {<<t[1], t[2]>>, <<t[1], t[3]>>, <<t[2], t[3]>>}

VertexSet(w) == {w[1], w[2], w[3]}

\* Two different minor figures with a common pair.
SharedEdge ==
    \E t1 \in Triangles, t2 \in Triangles :
        t1 # t2 /\ TriangleEdges(t1) \cap TriangleEdges(t2) # {}

\* The joint built for a pair, and its female side (member 0 of the joint).
JointOf(pair) ==
    joints[CHOOSE k \in 1..Len(joints) :
              {joints[k].posts[1], joints[k].posts[2]} = {pair[1], pair[2]}]

Female(pair) == JointOf(pair).posts[1]

FemaleCount(m, t) == Cardinality({e \in TriangleEdges(t) : Female(e) = m})

\* C1: once the joints are built, in every triple of mutually paired members
\* the female->male relation of the three joints is not a directed cycle: one
\* member is female in both of its joints, one in none, one in exactly one.
C1_NoContradictoryLoop ==
    pc = "done" =>
        \A t \in Triangles : {FemaleCount(m, t) : m \in VertexSet(t)} = {0, 1, 2}

\* C1 witness: a finished run on a graph whose minor figures share a pair and
\* for which connected rings were reported.
C1_Witness == pc = "done" /\ SharedEdge /\ conflicts # <<>>

\* The position of the first log entry of a pair, and the walk that made it
\* (the walk that recorded the pair's gender) with the bit it recorded.
FirstEntry(pair) ==
    CHOOSE k \in 1..Len(log) :
        log[k].pair = pair /\ \A j \in 1..(k - 1) : log[j].pair # pair

Recorder(pair) == log[FirstEntry(pair)].walk

FirstBit(pair) == log[FirstEntry(pair)].wanted

\* The first walk the gender loop makes of the minor figure t.
FirstWalk(t) ==
    log[CHOOSE k \in 1..Len(log) :
           /\ VertexSet(log[k].walk) = VertexSet(t)
           /\ \A j \in 1..(k - 1) : VertexSet(log[j].walk) # VertexSet(t)].walk

\* The recorded bit of joint i of walk w, read in the direction of the walk:
\* the bit of the canonical pair, inverted when canonicalising swapped the ids.
WalkBit(w, i) ==
    LET e == WalkEdge(w, i)
    IN  IF e[1] > e[2] THEN ~genders[<<e[2], e[1]>>] ELSE genders[e]

TrueBits(w) == Cardinality({i \in 0..2 : WalkBit(w, i)})

\* C2 as stated: for every minor figure, walked in the order of the gender
\* loop's first walk of it, the number of true bits is even.
C2_ParityEveryTriangle ==
    pc = "done" => \A t \in Triangles : TrueBits(FirstWalk(t)) % 2 = 0

\* The three pairs of t were recorded by one and the same walk.
RecordedByOneWalk(t) ==
    \A e \in TriangleEdges(t) : Recorder(e) = Recorder(<<t[1], t[2]>>)

\* C2 amended: for every minor figure whose three pairs were recorded by one
\* walk, walked in the order of that walk, the number of true bits is even.
C2_ParityOwnTriangle ==
    pc = "done" =>
        \A t \in Triangles :
            RecordedByOneWalk(t) => TrueBits(Recorder(<<t[1], t[2]>>)) % 2 = 0

\* C2 witness: a finished run in which a minor figure recorded by one walk
\* shares a pair with another minor figure.
C2_Witness ==
    /\ pc = "done"
    /\ \E t1 \in Triangles, t2 \in Triangles :
          /\ t1 # t2
          /\ TriangleEdges(t1) \cap TriangleEdges(t2) # {}
          /\ RecordedByOneWalk(t1)

\* C3: a recorded gender bit is the first one recorded for its pair, whatever
\* later walks ask for, and it is the bit the pair's joint is built with.
C3_FirstAssignmentKept ==
    /\ \A pair \in DOMAIN genders : genders[pair] = FirstBit(pair)
    /\ \A k \in 1..Len(joints) :
          pairs[k] \in DOMAIN genders =>
              joints[k].posts = IF FirstBit(pairs[k])
                                THEN <<pairs[k][2], pairs[k][1]>>
                                ELSE pairs[k]

\* C3 witness: a finished run in which a walk of another minor figure asked
\* for the bit opposite to the recorded one.
C3_Witness ==
    /\ pc = "done"
    /\ \E k \in 1..Len(log) :
          /\ log[k].had
          /\ log[k].wanted # FirstBit(log[k].pair)
          /\ VertexSet(log[k].walk) # VertexSet(Recorder(log[k].pair))

\* A walk was reported / asks, for a pair recorded by another minor figure,
\* for the opposite bit.
Reported(w) == \E k \in 1..Len(log) : log[k].walk = w /\ log[k].reported

Disagrees(w) ==
    \E k \in 1..Len(log) :
        /\ log[k].walk = w
        /\ log[k].had
        /\ log[k].wanted # FirstBit(log[k].pair)
        /\ VertexSet(Recorder(log[k].pair)) # VertexSet(w)

\* C4: a walk is reported exactly when it asks, for a pair already recorded
\* by a different minor figure, for the opposite bit.
C4_ConflictIffDisagreement ==
    pc = "done" =>
        \A k \in 1..Len(log) : Reported(log[k].walk) <=> Disagrees(log[k].walk)

InTriangle(pair) == \E t \in Triangles : pair \in TriangleEdges(t)

\* C5: the fringe list is the accepted pairs in no minor figure, in discovery
\* order; each has no recorded gender and its joint is (lowId, highId).
C5_FringeExact ==
    pc = "done" =>
        /\ fringe = SelectSeq(pairs, LAMBDA p : ~InTriangle(p))
        /\ \A k \in 1..Len(pairs) :
              ~InTriangle(pairs[k]) =>
                  /\ pairs[k] \notin DOMAIN genders
                  /\ joints[k].posts = pairs[k]

\* C5 witness: a finished run with a minor figure and a fringe pair.
C5_Witness == pc = "done" /\ fringe # <<>> /\ Triangles # {}

LexLess(p, q) == p[1] < q[1] \/ (p[1] = q[1] /\ p[2] < q[2])

\* C6: after findPairs, the accepted pairs are exactly the pairs of members
\* closer than the threshold; every unordered pair of distinct members was
\* tested once; the pairs are (lowId, highId) in ascending lexicographic
\* order; the connection matrix is symmetric and holds exactly the pairs.
C6_FindPairsExact ==
    pc \notin {"makePockets", "findPairs"} =>
        /\ PairSet = {p \in UnorderedPairs(axes) : dist[p] < Threshold}
        /\ Len(tested) = Cardinality(UnorderedPairs(axes))
        /\ {tested[k] : k \in 1..Len(tested)} = UnorderedPairs(axes)
        /\ \A i \in 1..Len(pairs), j \in 1..Len(pairs) :
              i < j => LexLess(pairs[i], pairs[j])
        /\ \A x \in 0..maxId, y \in 0..maxId :
              /\ (connections[x][y] # << <<>> >>) <=> (connections[y][x] # << <<>> >>)
              /\ (connections[x][y] # << <<>> >>) <=>
                     (<<x, y>> \in PairSet \/ <<y, x>> \in PairSet)
              /\ connections[x][y] \in {<< <<>> >>, << <<y>> >>}

\* C6 witness: findPairs has returned having accepted a pair and rejected a
\* pair exactly at the threshold.
C6_Witness ==
    /\ pc = "genders"
    /\ pairs # <<>>
    /\ \E p \in UnorderedPairs(axes) : dist[p] = Threshold

\* C7: one joint per accepted pair, in discovery order, with id = position;
\* its members are (lowId, highId), swapped exactly when the pair's gender bit
\* is true.
C7_JointPerPair ==
    pc = "done" =>
        /\ Len(joints) = Len(pairs)
        /\ \A k \in 1..Len(joints) :
              /\ joints[k].id = k - 1
              /\ joints[k].posts =
                     IF pairs[k] \in DOMAIN genders /\ genders[pairs[k]]
                     THEN <<pairs[k][2], pairs[k][1]>>
                     ELSE pairs[k]

\* C7 witness: a finished run with a report and a swapped joint.
C7_Witness ==
    /\ pc = "done"
    /\ conflicts # <<>>
    /\ \E k \in 1..Len(joints) : joints[k].posts[1] > joints[k].posts[2]
    /\ \E k \in 1..Len(joints) : joints[k].posts[1] < joints[k].posts[2]

Occurrences(s, x) == Cardinality({k \in 1..Len(s) : s[k] = x})

RECURSIVE SumLen(_, _)
SumLen(f, S) ==
    IF S = {} THEN 0
    ELSE LET m == CHOOSE x \in S : TRUE
         IN  Len(f[m]) + SumLen(f, S \ {m})

\* C8: when makePockets has completed every joint has two pockets, pocket i
\* with index i on the joint's member i; every pocket is in exactly one
\* member's list, once; there are twice as many pockets as joints; a member
\* has one pocket per accepted pair it is in; connected means has a pocket.
C8_TwoPocketsPerJoint ==
    pc = "done" =>
        /\ \A k \in 1..Len(joints) :
              /\ Len(joints[k].pockets) = 2
              /\ \A i \in 0..1 :
                    LET q == joints[k].pockets[i + 1]
                    IN  /\ q.index = i
                        /\ q.post = joints[k].posts[i + 1]
                        /\ q.joint = joints[k].id
                        /\ Occurrences(postPockets[q.post], q) = 1
                        /\ \A m \in axes \ {q.post} :
                              Occurrences(postPockets[m], q) = 0
        /\ SumLen(postPockets, axes) = 2 * Len(joints)
        /\ \A m \in axes :
              /\ Len(postPockets[m]) =
                     Cardinality({p \in PairSet : m = p[1] \/ m = p[2]})
              /\ isConnected[m] <=> Len(postPockets[m]) >= 1

\* C8 witness: a finished run with a member in two joints and a member in
\* none.
C8_Witness ==
    /\ pc = "done"
    /\ \E m \in axes : Len(postPockets[m]) >= 2
    /\ \E m \in axes : ~isConnected[m]

----------------------------------------------------------------------------
(* Properties of the toolpath generator *)

\* The depths blockPath is to cut: startZ - k*D, not deeper than endZ.
LayerDepth(k) == Max2(startZ - k * stepDownD, endZ)

C9_LayersInOrder ==
    /\ \A k \in 1..Len(layers) : layers[k] = LayerDepth(k)
    /\ \A k \in 1..(Len(layers) - 1) :
          /\ layers[k] = startZ - k * stepDownD
          /\ layers[k] > layers[k + 1]
          /\ layers[k] > endZ
    /\ bpc \in {"finish", "done"} =>
          /\ layers # <<>>
          /\ Last(layers) = endZ
          /\ startZ - stepDownD <= endZ => Len(layers) = 1

\* C9: blockPath terminates; the depths of its layers are startZ-D,
\* startZ-2D, ... strictly decreasing and never deeper than endZ; endZ is cut
\* once, as the last layer, also after a partial step; when startZ - D <= endZ
\* there is one layer, at endZ.
C9_BlockTerminatesOnEndZ == []C9_LayersInOrder /\ <>(bpc = "done")

\* C9 witness: a finished block of at least three layers whose last step
\* down is a partial one.
C9_Witness ==
    /\ bpc = "done"
    /\ Len(layers) >= 3
    /\ layers[Len(layers) - 1] - Last(layers) < stepDownD

\* The range of the axis the switchback steps along, and the other one.
PerpRange == IF fDir = 1 THEN vRange ELSE uRange

PrimaryRange == IF fDir = 1 THEN uRange ELSE vRange

Perp(p) == IF fDir = 1 THEN p.Y ELSE p.X

Primary(p) == IF fDir = 1 THEN p.X ELSE p.Y

\* The moves of a path that cross the whole primary range at one
\* perpendicular coordinate (every other move of the switchback).
LongStrokes(pth) ==
    {k \in 1..(Len(pth) - 1) :
        /\ k % 2 = 1
        /\ Perp(pth[k]) = Perp(pth[k + 1])
        /\ {Primary(pth[k]), Primary(pth[k + 1])} =
               {PrimaryRange.Min, PrimaryRange.Max}}

CeilDiv(x, s) == (x + s - 1) \div s

\* C10: the path facePath returns has ceil((max - min) / S) + 1 long strokes.
C10_StrokeCount ==
    fpc = "return" =>
        Cardinality(LongStrokes(faceResult[2])) =
            CeilDiv(PerpRange.Max - PerpRange.Min, step) + 1

\* Whether the pass started on the max side of the perpendicular range.
StartedAtMax == IF fDir = 1 THEN fStart[2] ELSE fStart[1]

\* The perpendicular boundary opposite the one the pass started on.
FarSide == IF StartedAtMax THEN PerpRange.Min ELSE PerpRange.Max

\* C11: in the path facePath returns every point has its primary coordinate
\* at an end of the primary range and its perpendicular coordinate inside
\* [min, max], and the last two points lie on the far perpendicular
\* boundary, for both values of dir and the four start corners.
C11_PathInsideEndsOnFarSide ==
    fpc = "return" =>
        LET pth == faceResult[2]
            n == Len(pth)
        IN  /\ n >= 2
            /\ \A k \in 1..n :
                  /\ Primary(pth[k]) \in {PrimaryRange.Min, PrimaryRange.Max}
                  /\ PerpRange.Min <= Perp(pth[k])
                  /\ Perp(pth[k]) <= PerpRange.Max
            /\ Perp(pth[n - 1]) = FarSide
            /\ Perp(pth[n]) = FarSide

\* C11 witness: a returned path of a pass with dir = 0 that started on the
\* max side and whose last step over was cut short at the boundary.
C11_Witness ==
    /\ fpc = "return"
    /\ fDir = 0
    /\ fStart[1]
    /\ Len(faceResult[2]) >= 6
    /\ (PerpRange.Max - PerpRange.Min) % step # 0
    /\ Perp(Last(faceResult[2])) = PerpRange.Min

----------------------------------------------------------------------------
(* Properties of the code emitter *)

IsNewline(x) == x.w = "\n"

IsFeedWord(x) == x.w = "F"

\* The lines of a text: the words between the newlines.
RECURSIVE SplitLines(_)
SplitLines(t) ==
    IF t = <<>> THEN <<>>
    ELSE IF \E i \in 1..Len(t) : IsNewline(t[i])
         THEN LET i == CHOOSE i \in 1..Len(t) :
                           /\ IsNewline(t[i])
                           /\ \A j \in 1..(i - 1) : ~IsNewline(t[j])
              IN  <<SubSeq(t, 1, i - 1)>>
                      \o SplitLines(SubSeq(t, i + 1, Len(t)))
         ELSE <<t>>

\* The numbers of the words of a line with the given letter.
Values(line, letter) ==
    LET Has(x) == x.w = letter
        ws == SelectSeq(line, Has)
    IN  [k \in 1..Len(ws) |-> ws[k].v]

\* What one history entry put into the text.
Segment(m) == SubSeq(text, m.from, m.to)

RapidMarks == {k \in 1..Len(marks) : marks[k].op.op = "Rapid"}

\* The feed words of the text so far, in order.
FeedWords == SelectSeq(text, IsFeedWord)

\* C12: a feed word is written only when its feed differs from the feed
\* word written before it (from 0 for the first), for Mill, Rapid and Arc
\* alike, and an operation that changes the feed writes one.
C12_FeedWordOnlyOnChange ==
    /\ \A k \in 1..Len(FeedWords) :
          FeedWords[k].v # (IF k = 1 THEN 0 ELSE FeedWords[k - 1].v)
    /\ \A k \in 1..Len(marks) :
          marks[k].feedAfter # marks[k].feedBefore =>
              Values(Segment(marks[k]), "F") = <<marks[k].feedAfter>>

\* C13: a Rapid writes a retract line with nothing but Z = clearance exactly
\* when its clear flag is set, then one line with X and Y of the target that
\* carries the rotary word exactly when a rotation was given (0 included),
\* with the negated rotation, then one G01 line down to the target depth
\* with the feed rounded from feedrate * approach, which is the feed rate of
\* the accumulator afterwards.
C13_RapidEmission ==
    \A k \in RapidMarks :
        LET o == marks[k].op
            lines == SplitLines(Segment(marks[k]))
            n == Len(lines)
            lateral == lines[n - 1]
            plunge == lines[n]
            f == marks[k].feedAfter
        IN  /\ n = IF o.clear THEN 3 ELSE 2
            /\ o.clear => lines[1] = <<W("G00", 0), W("Z", Clearance)>>
            /\ ~o.clear => Head(lateral) = W("G00", 0)
            /\ Values(lateral, "X") = <<o.end.X>>
            /\ Values(lateral, "Y") = <<o.end.Y>>
            /\ Values(lateral, "Z") = <<>>
            /\ Values(lateral, "G01") = <<>>
            /\ Values(lateral, "A") =
                   IF o.A = None THEN <<>> ELSE <<0 - o.A[1]>>
            /\ Head(plunge) = W("G01", 0)
            /\ Values(plunge, "Z") = <<o.end.Z>>
            /\ Values(plunge, "X") = <<>> /\ Values(plunge, "Y") = <<>>
            /\ Values(plunge, "F") = <<f>>
            /\ 2 * ApproachDen * f - 2 * Feedrate * approach <= ApproachDen
            /\ 2 * Feedrate * approach - 2 * ApproachDen * f < ApproachDen

\* C13 witness: a finished program with a Rapid that has a rotation and the
\* clear flag, one with neither, and one with rotation 0 and no clear flag.
C13_Witness ==
    /\ gpc = "done"
    /\ \E i, j, k \in RapidMarks :
          /\ marks[i].op.clear /\ marks[i].op.A = Some(3)
          /\ ~marks[j].op.clear /\ marks[j].op.A = None
          /\ ~marks[k].op.clear /\ marks[k].op.A = Some(0)

Brief(m) == [what |-> m.what, pocket |-> m.pocket, op |-> m.op]

PocketMarks(k) ==
    <<[what |-> "tag", pocket |-> k, op |-> NoOp]>> \o
    [i \in 1..Len(memberPockets[k].toolpath) |->
        [what |-> "op", pocket |-> k, op |-> memberPockets[k].toolpath[i]]]

ProgramMarks ==
    <<[what |-> "preamble", pocket |-> 0, op |-> NoOp]>>
        \o Flatten([k \in 1..Len(memberPockets) |-> PocketMarks(k)])
        \o <<[what |-> "home", pocket |-> 0,
              op |-> Rapid(Point3d(Home[1], Home[2], Home[3]),
                           Some(Home[4]), TRUE)]>>

\* C16: a finished member program is the preamble, then for each pocket in
\* the order of creation (ascending joint id) a comment naming the joint and
\* that pocket's operations in order, then one Rapid to the home position
\* and angle with clear set, which ends the text; also without pockets.
C16_ProgramLayout ==
    gpc = "done" =>
        /\ [k \in 1..Len(marks) |-> Brief(marks[k])] = ProgramMarks
        /\ marks[1].from = 1
        /\ \A k \in 2..Len(marks) : marks[k].from = marks[k - 1].to + 1
        /\ marks[Len(marks)].to = Len(text)
        /\ Head(Segment(marks[1])) = W("preamble", 0)
        /\ \A k \in 1..Len(marks) :
              marks[k].what = "tag" =>
                  SplitLines(Segment(marks[k])) =
                      <<<<>>, <<W("(Starting Pocket)",
                                  memberPockets[marks[k].pocket].joint)>>>>
        /\ \A j, k \in 1..Len(memberPockets) :
              j < k => memberPockets[j].joint < memberPockets[k].joint
        /\ LET home == SplitLines(Segment(marks[Len(marks)]))
           IN  /\ home[1] = <<W("G00", 0), W("Z", Clearance)>>
               /\ Values(home[2], "X") = <<Home[1]>>
               /\ Values(home[2], "Y") = <<Home[2]>>
               /\ Values(home[2], "A") = <<0 - Home[4]>>
               /\ Values(home[3], "Z") = <<Home[3]>>

\* C16 witness: the finished program of a member with two pockets of two
\* operations each.
C16_Witness ==
    /\ gpc = "done"
    /\ Len(memberPockets) = 2
    /\ \A k \in 1..2 : Len(memberPockets[k].toolpath) = 2
    /\ memberPockets[1].toolpath # memberPockets[2].toolpath

----------------------------------------------------------------------------
(* Properties of makeToolpath *)

\* The lines of the program from the comment of its first pocket on.
PocketSection == SplitLines(SubSeq(text, marks[2].from, Len(text)))

\* C15: for the default and the slide-bar pocket, female and male, the first
\* operation of the finished toolpath is a Rapid with the pocket's rotation
\* and the clear flag set, and in the program the pocket's section starts,
\* after its comment, with the retract to the clearance height.
C15_PocketStartsCleared ==
    /\ mpc = "done" =>
          /\ toolpath # <<>>
          /\ toolpath[1].op = "Rapid"
          /\ toolpath[1].A = <<rotation>>
          /\ toolpath[1].clear
    /\ (mpc = "done" /\ gpc = "done") =>
          /\ marks[2].what = "tag"
          /\ marks[3].op = toolpath[1]
          /\ PocketSection[1] = <<>>
          /\ PocketSection[2] = <<W("(Starting Pocket)", 1)>>
          /\ PocketSection[3] = <<W("G00", 0), W("Z", Clearance)>>
          /\ Values(PocketSection[4], "A") = <<0 - rotation>>

\* C15 witness: the finished program of the male half of a slide-bar pocket
\* with rotation 3 and a hole mark.
C15_Witness ==
    /\ gpc = "done"
    /\ pocketType = 1
    /\ pocketIndex = 1
    /\ rotation = 3
    /\ markDatum = 2
    /\ Len(blocks) = 3

\* C17: for a slide-bar pocket every mark datum other than 1 and 2 is
\* fatal: makeToolpath never returns a toolpath for it.
C17_UnknownDatumIsFatal ==
    (pocketType = 1 /\ markDatum \notin {1, 2}) => mpc # "done"

----------------------------------------------------------------------------
(* The structure of three mutually paired members *)

\* Exactly three members, each pair of them accepted by findPairs.
ThreeMutualMembers == Cardinality(axes) = 3 /\ Len(pairs) = 3

\* C20 as stated: for three mutually paired members the three pairs are all
\* in the fringe list with the default gender false, and the three joints
\* are built unswapped.
C20_TriangleIsFringe ==
    (pc = "done" /\ ThreeMutualMembers) =>
        /\ fringe = pairs
        /\ \A k \in 1..3 : ~PairGender(genders, pairs[k])
        /\ \A k \in 1..3 : joints[k].posts = pairs[k]

\* C20, amended: three mutually paired members lo < mid < hi are one minor
\* figure: no pair is in the fringe list, the genders are (lo,mid) = false,
\* (lo,hi) = true, (mid,hi) = true, and the joints are built as (lo,mid),
\* (hi,lo), (hi,mid).
C20_TriangleIsMinorFigure ==
    (pc = "done" /\ ThreeMutualMembers) =>
        LET lo == keys[1]
            mid == keys[2]
            hi == keys[3]
        IN  /\ fringe = <<>>
            /\ conflicts = <<>>
            /\ DOMAIN genders = {<<lo, mid>>, <<lo, hi>>, <<mid, hi>>}
            /\ ~genders[<<lo, mid>>]
            /\ genders[<<lo, hi>>]
            /\ genders[<<mid, hi>>]
            /\ [k \in 1..3 |-> joints[k].posts] =
                   <<<<lo, mid>>, <<hi, lo>>, <<hi, mid>>>>

\* C20 witness: makePockets has returned for the members 0, 2 and 3, all
\* three pairs accepted.
C20_Witness ==
    /\ pc = "done"
    /\ ThreeMutualMembers
    /\ axes = {0, 2, 3}
    /\ Len(joints) = 3

----------------------------------------------------------------------------
(* Fatal errors *)

\* The members of the joint whose pockets could not be created.
FailedMembers == {pairs[pairIx][1], pairs[pairIx][2]}

\* C18: when the creation of a pocket has raised, the run still creates the
\* joints of the other pairs and writes the programs of the members that
\* are not in the failed joint.
C18_FailureIsLocal ==
    pc = "raised" =>
        /\ Len(joints) = Len(pairs) - 1
        /\ \A m \in axes \ FailedMembers :
              \E k \in 1..Len(written) : written[k] = m

----------------------------------------------------------------------------
(* Properties of the skew factor *)

\* C21: a skew strictly between 0 and 180 degrees gives the factor
\* 1/sin(skew), which is at least 1; a skew of exactly 0 or 180 degrees
\* raises and gives no factor.
C21_SkewFactor ==
    cpc \in {"done", "raised"} =>
        IF Cross(edgeU, edgeV) # 0
        THEN /\ cpc = "done"
             /\ skewFactor.sq[1] * Cross(edgeU, edgeV) * Cross(edgeU, edgeV)
                    = skewFactor.sq[2] * Dot(edgeU, edgeU) * Dot(edgeV, edgeV)
             /\ skewFactor.sq[1] >= skewFactor.sq[2]
        ELSE cpc = "raised"

\* The two members have a joint.
Paired(x, y) == <<x, y>> \in PairSet \/ <<y, x>> \in PairSet

\* The walks p -> k -> m -> p over three distinct, mutually paired members,
\* written as makePockets writes a path: without its start, with its end.
TriangleWalks(p) ==
    {w \in axes \X axes \X {p} :
        /\ w[1] # p /\ w[2] # p /\ w[1] # w[2]
        /\ Paired(p, w[1]) /\ Paired(w[1], w[2]) /\ Paired(w[2], p)}

ClosedPaths(p) == {paths[p][p][j] : j \in 1..Len(paths[p][p])}

\* C22: once the paths are composed, the closed paths of every member p are
\* exactly the walks p -> k -> m -> p over three distinct mutually paired
\* members, each listed once, and every path the gender loop treats as a
\* minor figure is such a walk from its last member.
C22_ClosedPathsAreTriangles ==
    paths # <<>> =>
        /\ \A p \in 0..maxId :
              /\ ClosedPaths(p) = TriangleWalks(p)
              /\ Len(paths[p][p]) = Cardinality(TriangleWalks(p))
        /\ \A j \in 1..Len(log) : log[j].walk \in TriangleWalks(log[j].walk[3])

\* C22 witness: the paths are composed for a structure with a minor figure
\* and a member joined to only one member of it, and the gender loop has
\* walked the figure.
C22_Witness ==
    /\ paths # <<>>
    /\ log # <<>>
    /\ \E t \in Triangles, x \in axes :
          /\ x \notin VertexSet(t)
          /\ Cardinality({m \in VertexSet(t) : Paired(x, m)}) = 1

\* A minor figure that has no pair in common with another one.
IsolatedTriangle(t) ==
    \A t2 \in Triangles : t2 # t => TriangleEdges(t) \cap TriangleEdges(t2) = {}

\* C23: when a walk finds none of its three pairs recorded, the pair of
\* joint i is the joint's two members in ascending order, its bit is the
\* polarity (false for joint 0, true for joints 1 and 2) inverted exactly
\* when the members had to be swapped, and that bit is the one recorded; so
\* an isolated minor figure a < b < c ends with (a,b) = false, (a,c) = true,
\* (b,c) = true.
C23_FreshTriangleBits ==
    /\ \A j \in 1..Len(log) :
          (/\ log[j].i = 0
           /\ j + 2 <= Len(log)
           /\ \A n \in 0..2 : ~log[j + n].had)
          => \A n \in 0..2 :
                LET p0 == log[j].walk[n + 1]
                    p1 == log[j].walk[((n + 1) % 3) + 1]
                    swapped == p0 > p1
                    polarity == n # 0
                    entry == log[j + n]
                IN  /\ entry.pair = IF swapped THEN <<p1, p0>> ELSE <<p0, p1>>
                    /\ entry.wanted = (polarity # swapped)
                    /\ genders[entry.pair] = entry.wanted
    /\ pc = "done" =>
          \A t \in Triangles :
              IsolatedTriangle(t) =>
                  /\ genders[<<t[1], t[2]>>] = FALSE
                  /\ genders[<<t[1], t[3]>>] = TRUE
                  /\ genders[<<t[2], t[3]>>] = TRUE

\* C23 witness: a finished run with an isolated minor figure that does not
\* contain member 0.
C23_Witness ==
    pc = "done" /\ \E t \in Triangles : IsolatedTriangle(t) /\ t[1] > 0

\* The corner of the ranges of the current layer named by a pair of flags.
Corner(c, z) ==
    [X |-> IF c[1] THEN uRange.Max ELSE uRange.Min,
     Y |-> IF c[2] THEN vRange.Max ELSE vRange.Min,
     Z |-> z]

\* The direction of the step-overs of the pass: toward the far boundary.
StepSign == IF StartedAtMax THEN -1 ELSE 1

\* The end of the primary range the pass started at, and the other one.
NearPrimary ==
    IF (IF fDir = 1 THEN fStart[1] ELSE fStart[2])
    THEN PrimaryRange.Max ELSE PrimaryRange.Min

FarPrimary ==
    IF (IF fDir = 1 THEN fStart[1] ELSE fStart[2])
    THEN PrimaryRange.Min ELSE PrimaryRange.Max

\* C24: the path facePath returns starts at the requested corner; its odd
\* moves are long strokes across the whole primary range at one
\* perpendicular coordinate, each in the direction opposite to the one
\* before; its even moves are step-overs at one primary coordinate, each by
\* exactly the step toward the far boundary, except the last, which is
\* shorter and ends on the boundary; and the steps stop with the first one
\* that would pass the far boundary.
C24_SingleZigZag ==
    fpc = "return" =>
        LET pth == faceResult[2]
            n == Len(pth)
        IN  /\ n >= 4 /\ n % 2 = 0
            /\ pth[1] = Corner(fStart, fD)
            /\ \A k \in 1..n : pth[k].Z = fD
            /\ \A k \in 1..(n - 1) :
                  IF k % 2 = 1
                  THEN /\ Perp(pth[k]) = Perp(pth[k + 1])
                       /\ Primary(pth[k]) =
                              IF ((k - 1) \div 2) % 2 = 0
                              THEN NearPrimary ELSE FarPrimary
                       /\ Primary(pth[k + 1]) =
                              IF ((k - 1) \div 2) % 2 = 0
                              THEN FarPrimary ELSE NearPrimary
                  ELSE /\ Primary(pth[k]) = Primary(pth[k + 1])
                       /\ IF k < n - 2
                          THEN Perp(pth[k + 1]) = Perp(pth[k]) + StepSign * step
                          ELSE /\ Perp(pth[k + 1]) = FarSide
                               /\ StepSign * (Perp(pth[k + 1]) - Perp(pth[k])) >= 0
                               /\ StepSign * (Perp(pth[k + 1]) - Perp(pth[k])) < step
                               /\ StepSign * (Perp(pth[k]) + StepSign * step - FarSide) > 0

\* C24 witness: a returned path with long moves along U that started in the
\* (max U, max V) corner of a face wider than a point, made a whole
\* step-over and cut the next one short.
C24_Witness ==
    /\ fpc = "return"
    /\ fDir = 1
    /\ fStart = <<TRUE, TRUE>>
    /\ uRange.Min < uRange.Max
    /\ Len(faceResult[2]) >= 6
    /\ (vRange.Max - vRange.Min) % step # 0

\* The operations of layer k of the block: a Rapid and a Mill.
LayerRapid(k) == operations[2 * k - 1]

LayerMill(k) == operations[2 * k]

\* The layers whose operations are in the toolpath.
LayersDone == 1..(IF bpc = "inFace" THEN Len(layers) - 1 ELSE Len(layers))

\* C25: the operations of blockPath are, layer by layer, one Rapid without
\* rotation and without retract to the first point of the layer's path and
\* one Mill through the rest of it, which is never empty; nothing else is in
\* the toolpath but the finish Mill, which comes last, after a Mill.
C25_RapidThenMillPerLayer ==
    bpc \in {"layer", "inFace", "finish", "done"} =>
        /\ Len(operations) =
               2 * Cardinality(LayersDone)
                   + (IF bpc = "done" /\ finish THEN 1 ELSE 0)
        /\ \A k \in LayersDone :
              /\ LayerRapid(k).op = "Rapid"
              /\ LayerRapid(k).A = None
              /\ LayerRapid(k).clear = FALSE
              /\ LayerRapid(k).end.Z = layers[k]
              /\ LayerMill(k).op = "Mill"
              /\ Len(LayerMill(k).path) >= 1
              /\ \A j \in 1..Len(LayerMill(k).path) :
                    LayerMill(k).path[j].Z = layers[k]
        /\ (bpc \in {"layer", "finish"} /\ LayersDone # {}) =>
              /\ LayerRapid(Len(layers)).end = Head(result[2])
              /\ LayerMill(Len(layers)).path = Tail(result[2])
        /\ (bpc = "done" /\ finish) =>
              /\ operations[Len(operations)].op = "Mill"
              /\ operations[Len(operations) - 1].op = "Mill"

\* C25 witness: a finished block of at least two layers with a finish pass.
C25_Witness == bpc = "done" /\ finish /\ Len(layers) >= 2 /\ fDir = 0

\* C26: the end corner facePath returns is the corner of the layer's ranges
\* its last point lies on, and blockPath starts the first layer in the
\* (min U, min V) corner and every later layer in the corner of its own
\* ranges that the layer before ended in.
C26_LayersChainByCorner ==
    /\ fpc = "return" => Last(faceResult[2]) = Corner(faceResult[1], fD)
    /\ (bpc \in {"layer", "finish", "done"} /\ layers # <<>>) =>
          Last(result[2]) = Corner(result[1], Last(layers))
    /\ (bpc = "inFace" /\ fpc \in {"loop", "return"}) =>
          /\ fStart = result[1]
          /\ fPath[1] = Corner(result[1], currentZ)
          /\ Len(layers) = 1 => fPath[1] = Point3d(uRange.Min, vRange.Min, currentZ)

\* C26 witness: the third layer of a block with long moves along V has
\* returned, having started in the (max U, min V) corner and ended in the
\* (min U, max V) corner.
C26_Witness ==
    /\ bpc = "inFace"
    /\ fpc = "return"
    /\ fDir = 0
    /\ Len(layers) >= 3
    /\ fStart = <<TRUE, FALSE>>
    /\ faceResult[1] = <<FALSE, TRUE>>

\* The moves of the finish pass: from the last point of the last layer
\* through the points of the finish Mill.
FinishMoves ==
    LET pth == <<Last(result[2])>> \o operations[Len(operations)].path
    IN  {<<pth[k], pth[k + 1]>> : k \in 1..(Len(pth) - 1)}

\* The sides of the pocket boundary, each as its two corners.
BoundarySides ==
    LET edge == Edge(uRange, vRange, endZ)
    IN  {{edge[k], edge[(k % 4) + 1]} : k \in 1..4}

\* C27: with finish, blockPath ends with one more Mill at depth endZ whose
\* three moves, the first from the corner the last layer ended in, run along
\* three different sides of the pocket boundary.
C27_FinishCutsThreeSides ==
    (bpc = "done" /\ finish) =>
        LET last == operations[Len(operations)]
        IN  /\ Len(operations) = 2 * Len(layers) + 1
            /\ last.op = "Mill"
            /\ Len(last.path) = 3
            /\ \A k \in 1..3 : last.path[k].Z = endZ
            /\ Last(result[2]) = Corner(result[1], endZ)
            /\ Cardinality(FinishMoves) = 3
            /\ {{mv[1], mv[2]} : mv \in FinishMoves} \subseteq BoundarySides
            /\ Cardinality({{mv[1], mv[2]} : mv \in FinishMoves}) = 3

----------------------------------------------------------------------------
(* Properties of the slide-bar toolpath *)

\* The operations of the blocks, in the order of the calls.
RECURSIVE BlockOperations(_)
BlockOperations(k) ==
    IF k = 0 THEN <<>> ELSE BlockOperations(k - 1) \o blocks[k].operations

\* The points a block sends the tool to.
RECURSIVE PointsOf(_)
PointsOf(ops) ==
    IF ops = <<>> THEN {}
    ELSE LET o == Head(ops)
         IN  (IF o.op = "Mill" THEN {o.path[j] : j \in 1..Len(o.path)}
              ELSE {o.end}) \cup PointsOf(Tail(ops))

\* The arguments of a call of blockPath, but for the overrides.
Depths(k) ==
    <<blocks[k].call.startZ, blocks[k].call.endZ, blocks[k].call.finish>>

\* The block ends with the finish Mill of three points at the depth z.
HasFinishMill(k, z) ==
    LET ops == blocks[k].operations
        n == Len(ops)
    IN  /\ n = 2 * Len(blocks[k].layers) + 1
        /\ ops[n].op = "Mill"
        /\ Len(ops[n].path) = 3
        /\ \A j \in 1..3 : ops[n].path[j].Z = z

\* C28: the toolpath of a slide-bar pocket is, for the female half, the
\* block from the top to depth 0 and the block from 0 to -barHeight with V
\* held to the band of half-width (barWidth/2 + gap) * skewFactor about the
\* origin; for the male half, the block from the top to barHeight and two
\* blocks from barHeight to 0, one with U up to the band of half-width
\* barWidth/2 * skewFactor about the origin and one from it on, each with a
\* finish Mill and a first Rapid that retracts; the operations of the hole
\* mark, when it is made, are the last three.
C28_SlideBarComposition ==
    (mpc = "done" /\ pocketType = 1) =>
        LET all == BlockOperations(Len(blocks))
            n == Len(all)
            marked == markDatum \in {1, 2}
        IN  /\ Len(toolpath) = n + (IF marked THEN 3 ELSE 0)
            /\ \A j \in 2..n : toolpath[j] = all[j]
            /\ toolpath[1].op = "Rapid" /\ toolpath[1].end = all[1].end
            /\ marked =>
                  /\ toolpath[n + 1].op = "Rapid"
                  /\ toolpath[n + 1].clear
                  /\ toolpath[n + 2] = Mill(<<toolpath[n + 1].end>>)
                  /\ toolpath[n + 3].op = "Rapid"
            /\ \A k \in 1..Len(blocks) :
                  Len(blocks[k].operations) >= 2 * Len(blocks[k].layers)
            /\ IF pocketIndex = 0
               THEN /\ Len(blocks) = 2
                    /\ Depths(1) = <<profileTop, 0, FALSE>>
                    /\ blocks[1].call.uEnds = NoEnds
                    /\ blocks[1].call.vEnds = None
                    /\ Depths(2) = <<0, 0 - BarHeight, FALSE>>
                    /\ blocks[2].call.uEnds = NoEnds
                    /\ Len(blocks[2].call.vEnds) = 2
                    /\ 2 * (LocalOrigin[2] - blocks[2].call.vEnds[1])
                           = (BarWidth + 2 * Gap) * SkewFactor
                    /\ 2 * (blocks[2].call.vEnds[2] - LocalOrigin[2])
                           = (BarWidth + 2 * Gap) * SkewFactor
                    /\ \A p \in PointsOf(blocks[2].operations) :
                          /\ blocks[2].call.vEnds[1] < p.Y
                          /\ p.Y < blocks[2].call.vEnds[2]
                    /\ Len(blocks[2].operations) = 2 * Len(blocks[2].layers)
               ELSE /\ Len(blocks) = 3
                    /\ Depths(1) = <<profileTop, BarHeight, FALSE>>
                    /\ blocks[1].call.uEnds = NoEnds
                    /\ blocks[1].call.vEnds = None
                    /\ Depths(2) = <<BarHeight, 0, TRUE>>
                    /\ Depths(3) = <<BarHeight, 0, TRUE>>
                    /\ blocks[2].call.vEnds = None
                    /\ blocks[3].call.vEnds = None
                    /\ blocks[2].call.uEnds.lo = None
                    /\ blocks[3].call.uEnds.hi = None
                    /\ 2 * (LocalOrigin[1] - blocks[2].call.uEnds.hi[1])
                           = BarWidth * SkewFactor
                    /\ 2 * (blocks[3].call.uEnds.lo[1] - LocalOrigin[1])
                           = BarWidth * SkewFactor
                    /\ \A p \in PointsOf(blocks[2].operations) :
                          p.X <= blocks[2].call.uEnds.hi[1]
                    /\ \A p \in PointsOf(blocks[3].operations) :
                          p.X >= blocks[3].call.uEnds.lo[1]
                    /\ \A k \in {2, 3} :
                          /\ HasFinishMill(k, 0)
                          /\ blocks[k].operations[1].op = "Rapid"
                          /\ blocks[k].operations[1].clear

\* C28 witness: the toolpath of a male slide-bar pocket with a hole mark is
\* returned, each side of the bar having been cut in two layers.
C28_Witness ==
    /\ mpc = "done"
    /\ pocketType = 1
    /\ pocketIndex = 1
    /\ markDatum = 2
    /\ Len(blocks) = 3
    /\ Len(blocks[2].layers) = 2
    /\ Len(blocks[3].layers) = 2

\* The place of the last word up to place n of the text whose letter is one
\* of ws; 0 when there is none.
LastWord(n, ws) ==
    LET found == {i \in 1..n : text[i].w \in ws}
    IN  IF found = {} THEN 0 ELSE CHOOSE i \in found : \A j \in found : j <= i

\* The motion mode in effect at place n of the text.
ModeAt(n) ==
    LET i == LastWord(n, {"G00", "G01", "G02"})
    IN  IF i = 0 THEN "none" ELSE text[i].w

\* The feed in effect at place n of the text; 0 when no feed word was
\* written.
FeedAt(n) ==
    LET i == LastWord(n, {"F"})
    IN  IF i = 0 THEN 0 ELSE text[i].v

\* The place of the newline that ends the line of place i.
LineEnd(i) ==
    CHOOSE j \in i..Len(text) :
        IsNewline(text[j]) /\ \A k \in i..(j - 1) : ~IsNewline(text[k])

\* C29: on every coordinate line a Mill writes, the last feed word written
\* up to the end of the line is the nominal feed and the last motion word
\* is G01; and the feed rate of the accumulator is the value of the last
\* feed word of the text.
C29_MillAtNominalFeed ==
    /\ \A k \in 1..Len(marks) :
          marks[k].op.op = "Mill" =>
              \A i \in marks[k].from..marks[k].to :
                  text[i].w = "X" =>
                      /\ FeedAt(LineEnd(i)) = Feedrate
                      /\ ModeAt(i) = "G01"
    /\ feedRate = FeedAt(Len(text))

\* C29 witness: the program of a male slide-bar pocket with a hole mark is
\* complete, the plunges having been made at a reduced feed.
C29_Witness ==
    /\ gpc = "done"
    /\ pocketType = 1
    /\ pocketIndex = 1
    /\ markDatum = 1
    /\ PlungeFeed(approach) < Feedrate
    /\ Cardinality({k \in 1..Len(marks) : marks[k].op.op = "Mill"}) >= 6

\* The side blocks of the male half: the block below the bar and the block
\* above it (in U).
SideBlocks == {2, 3}

\* The tool centre at u is clear of the bar: outside the band of the bar
\* widened by the radius of the mill.
ClearOfBar(u) ==
    \/ u <= BarRange[1] - UVmillR
    \/ u >= BarRange[2] + UVmillR

\* The side of the bar a point is on: -1 below the band, 1 above it.
SideOf(u) == IF 2 * u < BarRange[1] + BarRange[2] THEN -1 ELSE 1

\* C30: in the toolpath of the male half, every point of the two side
\* blocks (layers, Rapids between layers and finish passes) keeps the tool
\* centre clear of the bar, the points of one block are all on one side of
\* it, and each side block begins with a Rapid that retracts first.
C30_BarNeverCut ==
    (mpc = "done" /\ pocketType = 1 /\ pocketIndex = 1) =>
        \A k \in SideBlocks :
            LET ops == blocks[k].operations
            IN  /\ \A p \in PointsOf(ops) : ClearOfBar(p.X)
                /\ \A p \in PointsOf(ops), q \in PointsOf(ops) :
                      SideOf(p.X) = SideOf(q.X)
                /\ ops[1].op = "Rapid" /\ ops[1].clear
                /\ \A j \in 2..Len(ops) : ops[j].op = "Rapid" => ~ops[j].clear

====
